---- MODULE Spec2Model ----
(***************************************************************************)
(* A model of the homeworkpal retrieval and ingestion core:                *)
(*   - RAGService (src/homeworkpal/rag/rag_service.py): vector search,     *)
(*     keyword search and hybrid search over the textbook_chunks table;    *)
(*   - ChineseTextProcessor.batch_vectorize_with_quality_control           *)
(*     (src/homeworkpal/document/chinese_text_processor.py);               *)
(*   - the ingestion scripts' generate_embeddings / save_to_database       *)
(*     (src/textbook_processing/ingestion/ingest_textbooks.py).            *)
(*                                                                         *)
(* Scores are fixed-point numbers: a similarity or keyword score s is the  *)
(* integer 100*s, a weight w is the integer 10*w, a fused score is in      *)
(* thousandths.  Strings of the program are ASCII stand-ins.               *)
(***************************************************************************)
EXTENDS Integers, Sequences, FiniteSets, TLC

VARIABLES
    textbook_chunks,    \* the textbook_chunks table: a sequence of rows, row i has id i
    call,               \* the RAGService entry point last called, with its arguments
    ret,                \* what that call gave back: [raised, results]
    semantic_results,   \* hybrid_search's local: what self.search returned
    keyword_results,    \* hybrid_search's local: what self._keyword_search returned
    path,               \* which return statement of hybrid_search was taken
    bv,                 \* the locals of one call of batch_vectorize_with_quality_control
    document,           \* the chunk list an ingestion run is given, and its batch_size
    run,                \* the ingestion runs: run[r] holds the locals of run r
    splitter,           \* the locals of one call of split_pdf_content / _split_text
    quality,            \* one text given to the quality scorers, and what they gave back
    analyzer,           \* the locals of one call of analyze_textbook_structure
    preprocess,         \* the locals of one call of preprocess_chinese_text_for_embedding
    qa                  \* one call of a QAService entry point, and what it gave back

searchVars == <<textbook_chunks, call, ret, semantic_results, keyword_results, path>>

documentVars == <<splitter, quality, analyzer, preprocess, qa>>

\* no splitter, scorer or analyzer call is under way
NoDocumentWork ==
    /\ splitter = [pc |-> "off"]
    /\ quality = [pc |-> "off"]
    /\ analyzer = [pc |-> "off"]
    /\ preprocess = [pc |-> "off"]
    /\ qa = [pc |-> "off"]

vars == <<textbook_chunks, call, ret, semantic_results, keyword_results, path,
          bv, document, run, splitter, quality, analyzer, preprocess, qa>>

None == "None"

Min(a, b) == IF a <= b THEN a ELSE b

Range(s) == {s[i] : i \in DOMAIN s}

----------------------------------------------------------------------------
(* Bounds of the model *)

MaxRecords == 2         \* rows in the table
MaxTopK == 2            \* largest top_k a caller passes
max_results == 1        \* RAGService(max_results=...), the configured cap

(* Program constants *)

similarity_threshold == 30      \* 0.3
embedding_dimension == 1024

----------------------------------------------------------------------------
(* The table and what PostgreSQL computes on it for the query at hand.     *)
(* A row carries its metadata_json and, for the query of the call, the     *)
(* two values the SQL computes: sim = 1 - (embedding <=> :query_vector)    *)
(* and kw = ts_rank_cd(...), with kw > 0 exactly when the row matches the  *)
(* tsquery.                                                                *)

Subjects == {"yuwen", "shuxue"}
Grades == {"g3"}
Units == {"u1"}
PageNumbers == {1, 2}

SimilarityScores == {20, 30, 90}
\* ts_rank_cd is called without a normalization flag: it is not confined to [0,1]
KeywordScores == {0, 80, 400}

Metadata == [subject : Subjects, grade : Grades, unit : Units, page_number : PageNumbers]

\* metadata_json->>'key': the value as text
JsonText(key, value) == IF key = "page_number" THEN ToString(value) ELSE value

Row == [metadata_json : Metadata, sim : SimilarityScores, kw : KeywordScores]

\* rows are kept in one canonical order: the row ids carry no meaning of their own
RowRank(r) ==
    (IF r.metadata_json.subject = "yuwen" THEN 0 ELSE 1000000)
    + r.metadata_json.page_number * 100000 + r.sim * 1000 + r.kw

Tables(rows) ==
    {t \in UNION {[1..n -> rows] : n \in 0..MaxRecords} :
        \A i \in 1..(Len(t) - 1) : RowRank(t[i]) <= RowRank(t[i + 1])}

\* ORDER BY score DESC LIMIT :limit over the rows `ids`: every order the
\* database may give to rows of equal score
SqlOrderLimit(ids, score, limit) ==
    LET n == Cardinality(ids)
        orders == {p \in [1..n -> ids] :
                      /\ \A i, j \in 1..n : i # j => p[i] # p[j]
                      /\ \A i \in 1..(n - 1) : score[p[i]] >= score[p[i + 1]]}
    IN  {SubSeq(p, 1, Min(limit, n)) : p \in orders}

SearchResult(i, score) ==
    [chunk_id |-> i, score |-> score, metadata |-> textbook_chunks[i].metadata_json]

----------------------------------------------------------------------------
(* Arguments *)

\* the additional filters mapping: a set of items, one per key; an item's
\* value is a str (text), an int (number) or a list of str (items)
FilterItem(key, type, text, number, items) ==
    [key |-> key, type |-> type, text |-> text, number |-> number, items |-> items]

FilterDicts ==
    { {FilterItem("page_number", "str", "1", 0, {})},
      {FilterItem("page_number", "int", "", 1, {})},
      {FilterItem("page_number", "list", "", 0, {"1"})} }

\* filters: None and the empty mapping are the same to `if additional_filters:`
NoFilters == [subject |-> None, grade |-> None, unit |-> None, filters |-> {}]

FilterArgs ==
    {NoFilters,
     [NoFilters EXCEPT !.subject = "yuwen"],
     [NoFilters EXCEPT !.subject = "shuxue", !.grade = "g3", !.unit = "u1"]}
    \cup {[NoFilters EXCEPT !.filters = d] : d \in FilterDicts}

\* what embedding_client.embed_query does: a vector of some length, or it raises
EmbedReplies == {"vector1024", "vector768", "unauthorized", "timeout"}

\* get_db() / db.execute: the session works or raises
DbReplies == {"ok", "error"}

Raised(kind) == [raised |-> kind, results |-> <<>>]
Returned(results) == [raised |-> "none", results |-> results]

----------------------------------------------------------------------------
(* RAGService._generate_query_embedding *)

\* len(embedding) of a reply that is a vector
ReplyDimension(reply) == IF reply = "vector1024" THEN 1024 ELSE 768

GenerateQueryEmbedding(reply) ==
    CASE reply = "unauthorized" -> "credentials"
      [] reply = "timeout" -> "timeout"
      [] ReplyDimension(reply) # embedding_dimension -> "dimension"     \* ValueError
      [] OTHER -> "none"

(* RAGService._vector_similarity_search *)

\* mutant: the WHERE clause without the threshold
VectorThresholdClause_Dropped(row) == TRUE

\* WHERE 1 - (embedding <=> :query_vector) >= :threshold
VectorThresholdClause(row) == row.sim >= similarity_threshold

\* one condition of filter_conditions for an item of additional_filters
AdditionalFilterClause(row, item) ==
    CASE item.type = "str" ->
            JsonText(item.key, row.metadata_json[item.key]) = item.text
      [] item.type = "list" ->
            JsonText(item.key, row.metadata_json[item.key]) \in item.items
      [] OTHER -> TRUE        \* neither str nor list: no condition is appended

VectorFilterClause(row, f) ==
    /\ f.subject # None => JsonText("subject", row.metadata_json.subject) = f.subject
    /\ f.grade # None => JsonText("grade", row.metadata_json.grade) = f.grade
    /\ f.unit # None => JsonText("unit", row.metadata_json.unit) = f.unit
    /\ \A item \in f.filters : AdditionalFilterClause(row, item)

VectorSimilaritySearch(limit, f, db) ==
    IF db = "error" THEN {Raised("store")}
    ELSE LET ids == {i \in DOMAIN textbook_chunks :
                        /\ VectorThresholdClause(textbook_chunks[i])
                        /\ VectorFilterClause(textbook_chunks[i], f)}
             rows == SqlOrderLimit(ids, [i \in ids |-> textbook_chunks[i].sim], limit)
         IN  {Returned([k \in DOMAIN p |-> SearchResult(p[k], textbook_chunks[p[k]].sim)]) :
                 p \in rows}

(* RAGService.search *)

SearchLimit(top_k) == Min(top_k, max_results)

\* every outcome of search(query, top_k, **f) over the replies of the
\* embedding client and of the database
Search(top_k, f) ==
    UNION {IF GenerateQueryEmbedding(e) # "none"
           THEN {Raised(GenerateQueryEmbedding(e))}        \* except ...: raise
           ELSE UNION {VectorSimilaritySearch(SearchLimit(top_k), f, db) : db \in DbReplies}
           : e \in EmbedReplies}

(* RAGService._keyword_search *)

\* **filters as _keyword_search sees them: only subject, grade, unit are read
KeywordFilterClause(row, f) ==
    /\ f.subject # None => JsonText("subject", row.metadata_json.subject) = f.subject
    /\ f.grade # None => JsonText("grade", row.metadata_json.grade) = f.grade
    /\ f.unit # None => JsonText("unit", row.metadata_json.unit) = f.unit

KeywordLimit(top_k) == top_k

KeywordSearch(top_k, f, db) ==
    IF db = "error" THEN {<<>>}                 \* except Exception: return []
    ELSE LET ids == {i \in DOMAIN textbook_chunks :
                        /\ textbook_chunks[i].kw > 0
                        /\ KeywordFilterClause(textbook_chunks[i], f)}
             rows == SqlOrderLimit(ids, [i \in ids |-> textbook_chunks[i].kw], KeywordLimit(top_k))
         IN  {[k \in DOMAIN p |-> SearchResult(p[k], textbook_chunks[p[k]].kw)] : p \in rows}

(* RAGService._combine_search_results *)

\* a dict that remembers insertion order: keys in order, val the mapping
EmptyDict == [keys |-> <<>>, val |-> <<>>]

DictHas(d, k) == k \in Range(d.keys)

DictPut(d, k, v) ==
    IF DictHas(d, k) THEN [d EXCEPT !.val = [x \in DOMAIN d.val |-> IF x = k THEN v ELSE d.val[x]]]
    ELSE [keys |-> Append(d.keys, k), val |-> (k :> v) @@ d.val]

\* for result in semantic_results: combined_scores[chunk_id] = score * semantic_weight
RECURSIVE SemanticPass(_, _, _)
SemanticPass(results, semantic_weight, d) ==
    IF results = <<>> THEN d
    ELSE SemanticPass(Tail(results), semantic_weight,
                      DictPut(d, Head(results).chunk_id, Head(results).score * semantic_weight))

\* mutant: `=` where the code has `+=`
KeywordUpdate_Overwrite(d, result, keyword_weight) ==
    DictPut(d, result.chunk_id, result.score * keyword_weight)

\* the update of combined_scores for one keyword result
KeywordUpdate(d, result, keyword_weight) ==
    IF DictHas(d, result.chunk_id)
    THEN DictPut(d, result.chunk_id, d.val[result.chunk_id] + result.score * keyword_weight)
    ELSE DictPut(d, result.chunk_id, result.score * keyword_weight)

RECURSIVE KeywordPass(_, _, _)
KeywordPass(results, keyword_weight, d) ==
    IF results = <<>> THEN d
    ELSE KeywordPass(Tail(results), keyword_weight, KeywordUpdate(d, Head(results), keyword_weight))

CombinedScores(semantic, keyword, semantic_weight, keyword_weight) ==
    KeywordPass(keyword, keyword_weight, SemanticPass(semantic, semantic_weight, EmptyDict))

\* chunk_data: the semantic result of a chunk if there is one, else the keyword result
ChunkData(semantic, keyword, id) ==
    IF \E k \in DOMAIN semantic : semantic[k].chunk_id = id
    THEN semantic[CHOOSE k \in DOMAIN semantic : semantic[k].chunk_id = id]
    ELSE keyword[CHOOSE k \in DOMAIN keyword : keyword[k].chunk_id = id]

\* sorted(items, key=score, reverse=True): stable, equal scores keep dict order
RECURSIVE InsertDesc(_, _, _)
InsertDesc(sorted, k, val) ==
    IF sorted = <<>> THEN <<k>>
    ELSE IF val[Head(sorted)] >= val[k]
         THEN <<Head(sorted)>> \o InsertDesc(Tail(sorted), k, val)
         ELSE <<k>> \o sorted

RECURSIVE SortedDesc(_, _)
SortedDesc(keys, val) ==
    IF keys = <<>> THEN <<>>
    ELSE InsertDesc(SortedDesc(SubSeq(keys, 1, Len(keys) - 1), val), keys[Len(keys)], val)

\* mutant: the slice left out
Truncate_Off(seq, top_k) == seq

\* [:top_k]
Truncate(seq, top_k) == SubSeq(seq, 1, Min(top_k, Len(seq)))

CombineSearchResults(semantic, keyword, semantic_weight, keyword_weight, top_k) ==
    LET d == CombinedScores(semantic, keyword, semantic_weight, keyword_weight)
        sorted_results == Truncate(SortedDesc(d.keys, d.val), top_k)
    IN  [k \in DOMAIN sorted_results |->
            [ChunkData(semantic, keyword, sorted_results[k]) EXCEPT
                !.score = d.val[sorted_results[k]]]]

----------------------------------------------------------------------------
(* The calls into RAGService *)

\* (semantic_weight, keyword_weight) in tenths; 0.7 / 0.3 are the defaults
WeightPairs == {<<7, 3>>, <<3, 7>>}

Call(op, top_k, f, w) ==
    [op |-> op, top_k |-> top_k, f |-> f, semantic_weight |-> w[1], keyword_weight |-> w[2]]

Idle == Call("none", 0, NoFilters, <<7, 3>>)

\* results = rag_service.search(query, top_k, subject, grade, unit, filters)
DoSearch(top_k, f) ==
    /\ call = Idle
    /\ \E out \in Search(top_k, f) : ret' = out
    /\ call' = Call("search", top_k, f, <<7, 3>>)
    /\ semantic_results' = <<>>
    /\ keyword_results' = <<>>
    /\ path' = "none"
    /\ UNCHANGED <<textbook_chunks, bv, document, run, documentVars>>

\* results = rag_service._keyword_search(query, top_k, **f)
DoKeywordSearch(top_k, f) ==
    /\ call = Idle
    /\ \E db \in DbReplies : \E rows \in KeywordSearch(top_k, f, db) : ret' = Returned(rows)
    /\ call' = Call("keyword", top_k, f, <<7, 3>>)
    /\ semantic_results' = <<>>
    /\ keyword_results' = <<>>
    /\ path' = "none"
    /\ UNCHANGED <<textbook_chunks, bv, document, run, documentVars>>

\* results = rag_service.hybrid_search(query, top_k, keyword_weight, semantic_weight, **f)
DoHybridSearch(top_k, f, w) ==
    /\ call = Idle
    /\ \E first \in Search(top_k * 2, f) :
          IF first.raised = "none"
          THEN \E db \in DbReplies : \E rows \in KeywordSearch(top_k * 2, f, db) :
                  /\ semantic_results' = first.results
                  /\ keyword_results' = rows
                  /\ ret' = Returned(CombineSearchResults(first.results, rows, w[1], w[2], top_k))
                  /\ path' = "fused"
          ELSE \* except Exception: return self.search(query, top_k=top_k, **filters)
               \E second \in Search(top_k, f) :
                  /\ semantic_results' = <<>>
                  /\ keyword_results' = <<>>
                  /\ ret' = second
                  /\ path' = "fallback"
    /\ call' = Call("hybrid", top_k, f, w)
    /\ UNCHANGED <<textbook_chunks, bv, document, run, documentVars>>

\* the caller is done with the results; the service keeps no state of a call
Forget ==
    /\ call # Idle
    /\ call' = Idle
    /\ ret' = Returned(<<>>)
    /\ semantic_results' = <<>>
    /\ keyword_results' = <<>>
    /\ path' = "none"
    /\ UNCHANGED <<textbook_chunks, bv, document, run, documentVars>>

\* tables whose rows differ in metadata, and tables whose rows differ in scores
FilterRows == {r \in Row : r.sim \in {20, 90} /\ r.kw \in {0, 80}}
ScoreRows == {r \in Row : r.metadata_json.subject = "yuwen" /\ r.metadata_json.page_number = 1}

NoCall ==
    /\ call = Idle
    /\ ret = Returned(<<>>)
    /\ semantic_results = <<>>
    /\ keyword_results = <<>>
    /\ path = "none"

InitSearch ==
    /\ textbook_chunks \in Tables(FilterRows) \cup Tables(ScoreRows)
    /\ NoCall
    /\ bv = [pc |-> "off"]
    /\ document = [chunks |-> <<>>, batch_size |-> 1]
    /\ run = <<>>
    /\ NoDocumentWork

NextSearch ==
    \/ \E top_k \in 0..MaxTopK, f \in FilterArgs :
        \/ DoSearch(top_k, f)
        \/ DoKeywordSearch(top_k, f)
        \/ \E w \in WeightPairs : DoHybridSearch(top_k, f, w)
    \/ Forget

SpecSearch == InitSearch /\ [][NextSearch]_vars

----------------------------------------------------------------------------
(* ChineseTextProcessor.batch_vectorize_with_quality_control               *)
(*                                                                         *)
(* A text chunk is what the two pure functions of the processor make of    *)
(* it: score, the score of assess_embedding_quality in hundredths, and     *)
(* processed_empty, whether preprocess_chinese_text_for_embedding reduces  *)
(* it to the empty string.  A vector is the number of the chunk whose      *)
(* processed text it embeds, the zero vector [0.0] * 1024 is 0.            *)

MaxChunks == 3          \* chunks in a chunk list
MaxBatchSize == 2       \* largest batch_size
MaxRetries == 2         \* largest max_retries
\* embed_documents calls per batch after which the model stops counting
MaxCalls == MaxRetries + 2

QualityScores == {40, 50, 70}

\* the quality_threshold the callers pass: 0.4 (ingest_textbooks_enhanced.py)
\* and 0.6 (ingest_textbooks_structured.py)
Thresholds == {40, 60}

\* chinese: the text has a Chinese character; a text without one is not
\* empty, and assess_embedding_quality raises on it (chinese_ratio unbound)
TextChunk ==
    [score : QualityScores, processed_empty : BOOLEAN, chinese : {TRUE}]
    \cup {[score |-> 0, processed_empty |-> TRUE, chinese |-> FALSE]}
ChunkLists == UNION {[1..n -> TextChunk] : n \in 0..MaxChunks}

ZeroVector == 0

\* assess_embedding_quality(chunk)['is_suitable']: final_score > 0.4
IsSuitable(chunk) == chunk.score > 40

RECURSIVE SelectSeq2(_, _, _)
\* the indices i of s, in order, for which keep[i]
SelectSeq2(s, keep, i) ==
    IF i > Len(s) THEN <<>>
    ELSE (IF keep[i] THEN <<i>> ELSE <<>>) \o SelectSeq2(s, keep, i + 1)

\* step 1: suitable_indices
SuitableIndices(chunks) ==
    SelectSeq2(chunks, [i \in DOMAIN chunks |-> IsSuitable(chunks[i])], 1)

\* step 2: processed_chunks, each processed text named by the chunk it comes from
ProcessedChunks(chunks) ==
    SelectSeq2(chunks, [i \in DOMAIN chunks |->
                            IsSuitable(chunks[i]) /\ ~chunks[i].processed_empty], 1)

\* s[i:i + n] with a 0-based start i
Slice(s, i, n) == SubSeq(s, i + 1, Min(i + n, Len(s)))

\* what embedding_model.embed_documents(batch) does
VectorizeReplies == {"vectors", "wrong_dimension", "empty", "raise"}

BatchVectorizeStart(chunks, batch_size, max_retries, quality_threshold) ==
    [pc |-> "start", text_chunks |-> chunks, batch_size |-> batch_size,
     max_retries |-> max_retries, quality_threshold |-> quality_threshold,
     suitable_indices |-> <<>>, processed_chunks |-> <<>>,
     all_embeddings |-> <<>>, i |-> 0, retry_count |-> 0, batch_success |-> FALSE,
     calls |-> 0, exhausted |-> {}, final_embeddings |-> <<>>]

VectorizeUnchanged ==
    UNCHANGED <<textbook_chunks, call, ret, semantic_results, keyword_results, path,
                document, run, documentVars>>

\* steps 1 and 2: quality screening and preprocessing; the exception of
\* assess_embedding_quality leaves the method
Prescreen ==
    /\ bv.pc = "start"
    /\ bv' = IF \E i \in DOMAIN bv.text_chunks : ~bv.text_chunks[i].chinese
             THEN [bv EXCEPT !.pc = "raised"]
             ELSE [bv EXCEPT !.pc = "loop",
                             !.suitable_indices = SuitableIndices(bv.text_chunks),
                             !.processed_chunks = ProcessedChunks(bv.text_chunks)]
    /\ VectorizeUnchanged

\* for i in range(0, len(processed_chunks), batch_size): retry_count = 0 ...
EnterBatch ==
    /\ bv.pc = "loop"
    /\ bv.i < Len(bv.processed_chunks)
    /\ bv' = [bv EXCEPT !.pc = "retry", !.retry_count = 0, !.batch_success = FALSE,
                        !.calls = 0]
    /\ VectorizeUnchanged

\* the zero vectors appended when the last retry raised
ZeroFill(n) == [k \in 1..n |-> ZeroVector]

\* retry_count after embed_documents answered with `reply`
RetryCountAfter(retry_count, reply) ==
    IF reply = "raise" THEN retry_count + 1 ELSE retry_count

\* one pass of the while loop body: one call of embed_documents
EmbedDocuments(reply) ==
    /\ bv.pc = "retry"
    /\ ~bv.batch_success /\ bv.retry_count < bv.max_retries
    /\ bv.calls < MaxCalls
    /\ LET batch == Slice(bv.processed_chunks, bv.i, bv.batch_size)
           retry_count == RetryCountAfter(bv.retry_count, reply)
       IN  bv' = [bv EXCEPT
                !.calls = @ + 1,
                !.retry_count = retry_count,
                !.batch_success = (reply = "vectors"),
                !.exhausted = IF reply = "raise" /\ retry_count >= bv.max_retries
                              THEN @ \cup {bv.i} ELSE @,
                !.all_embeddings =
                    CASE reply = "vectors" -> @ \o batch
                      [] reply = "raise" /\ retry_count >= bv.max_retries ->
                            @ \o ZeroFill(Len(batch))
                      [] OTHER -> @]
    /\ VectorizeUnchanged

\* the while condition is false: on to the next batch
LeaveBatch ==
    /\ bv.pc = "retry"
    /\ bv.batch_success \/ bv.retry_count >= bv.max_retries
    /\ bv' = [bv EXCEPT !.pc = "loop", !.i = @ + bv.batch_size]
    /\ VectorizeUnchanged

\* suitable_indices.index(i), 0-based
IndexOf(s, x) == (CHOOSE k \in DOMAIN s : s[k] = x /\ \A j \in 1..(k - 1) : s[j] # x) - 1

\* step 4: one vector per input chunk
FinalEmbeddings(b) ==
    [i \in DOMAIN b.text_chunks |->
        IF i \in Range(b.suitable_indices)
        THEN LET idx == IndexOf(b.suitable_indices, i)
             IN  IF idx < Len(b.all_embeddings) THEN b.all_embeddings[idx + 1]
                 ELSE ZeroVector
        ELSE ZeroVector]

Integrate ==
    /\ bv.pc = "loop"
    /\ bv.i >= Len(bv.processed_chunks)
    /\ bv' = [bv EXCEPT !.pc = "done", !.final_embeddings = FinalEmbeddings(bv)]
    /\ VectorizeUnchanged

InitVectorize ==
    /\ \E chunks \in ChunkLists, batch_size \in 1..MaxBatchSize,
          max_retries \in 1..MaxRetries, quality_threshold \in Thresholds :
          bv = BatchVectorizeStart(chunks, batch_size, max_retries, quality_threshold)
    /\ textbook_chunks = <<>>
    /\ NoCall
    /\ document = [chunks |-> <<>>, batch_size |-> 1]
    /\ run = <<>>
    /\ NoDocumentWork

NextVectorize ==
    \/ Prescreen
    \/ EnterBatch
    \/ \E reply \in VectorizeReplies : EmbedDocuments(reply)
    \/ LeaveBatch
    \/ Integrate

SpecVectorize == InitVectorize /\ [][NextVectorize]_vars

----------------------------------------------------------------------------
(* The ingestion script ingest_textbooks.py: main() runs                   *)
(* generate_embeddings and then save_to_database on the chunk list of a    *)
(* document.  A chunk is its content_hash (the MD5 of its content) and its *)
(* quality_score in hundredths; a row of the table is the content_hash     *)
(* and the embedding it was stored with.                                   *)

MaxDocChunks == 3       \* chunks of the document
MaxHashes == 2          \* distinct chunk contents
MaxRuns == 2            \* ingestion runs of the document, one after the other

DocChunk == [content_hash : 1..MaxHashes, quality_score : {30, 90}]
Documents == UNION {[1..n -> DocChunk] : n \in 0..MaxDocChunks}

Hashes(rows) == {rows[k].content_hash : k \in DOMAIN rows}

\* a table holding one row for each hash of `hs`, in the order of the hashes
RECURSIVE StoredRows(_)
StoredRows(hs) ==
    IF hs = {} THEN <<>>
    ELSE LET h == CHOOSE x \in hs : \A y \in hs : x <= y
         IN  <<[content_hash |-> h, embedding |-> "vector"]>> \o StoredRows(hs \ {h})

RECURSIVE Filter(_, _)
\* [x for x in s if keep[x]], keep a set of the elements kept
Filter(s, keep) ==
    IF s = <<>> THEN <<>>
    ELSE (IF Head(s) \in keep THEN <<Head(s)>> ELSE <<>>) \o Filter(Tail(s), keep)

\* high_quality_chunks: chunk.get('quality_score', 1.0) > 0.3
HighQualityChunks(chunks) == Filter(chunks, {c \in Range(chunks) : c.quality_score > 30})

NewRun ==
    [pc |-> "embed", fault |-> "none", embedded_chunks |-> <<>>, new_chunks |-> <<>>,
     i |-> 0, saved_count |-> 0]

Finished(r) == run[r].pc \in {"done", "failed"}

IngestUnchanged ==
    UNCHANGED <<call, ret, semantic_results, keyword_results, path, bv, document,
                documentVars>>

\* python ingest_textbooks.py, once more on the same document
StartRun ==
    /\ Len(run) < MaxRuns
    /\ \A r \in DOMAIN run : Finished(r)
    /\ run' = Append(run, NewRun)
    /\ UNCHANGED textbook_chunks
    /\ IngestUnchanged

\* generate_embeddings: one embed_documents call for all the texts; any
\* exception gives [], and main() stops on an empty list
GenerateEmbeddings(r, reply) ==
    /\ r \in DOMAIN run
    /\ run[r].pc = "embed"
    /\ LET high_quality_chunks == HighQualityChunks(document.chunks)
       IN  run' = [run EXCEPT ![r] =
                CASE high_quality_chunks = <<>> -> [@ EXCEPT !.pc = "failed"]
                  [] reply = "raise" -> [@ EXCEPT !.pc = "failed", !.fault = "embedding"]
                  [] OTHER -> [@ EXCEPT !.pc = "lookup",
                                        !.embedded_chunks = high_quality_chunks]]
    /\ UNCHANGED textbook_chunks
    /\ IngestUnchanged

\* new_chunks: the chunks whose content_hash is not in existing_hashes
NewChunks(chunks, existing_hashes) ==
    Filter(chunks, {c \in Range(chunks) : c.content_hash \notin existing_hashes})

\* save_to_database up to the batch loop: the look-up of the stored hashes
LookupExisting(r, db) ==
    /\ r \in DOMAIN run
    /\ run[r].pc = "lookup"
    /\ LET existing_hashes == Hashes(textbook_chunks) \cap Hashes(run[r].embedded_chunks)
           new_chunks == NewChunks(run[r].embedded_chunks, existing_hashes)
       IN  run' = [run EXCEPT ![r] =
                CASE db = "error" -> [@ EXCEPT !.pc = "failed", !.fault = "database"]
                  [] new_chunks = <<>> -> [@ EXCEPT !.pc = "done"]
                  [] OTHER -> [@ EXCEPT !.pc = "save", !.new_chunks = new_chunks, !.i = 0]]
    /\ UNCHANGED textbook_chunks
    /\ IngestUnchanged

\* content_hash is unique=True: the flush of a batch fails if two of its rows
\* share a hash or one of them has a hash that is stored already
UniqueViolation(batch, rows) ==
    \/ \E j, k \in DOMAIN batch : j # k /\ batch[j].content_hash = batch[k].content_hash
    \/ Hashes(batch) \cap Hashes(rows) # {}

\* one pass of the batch loop: session.add for each chunk, then session.commit()
SaveBatch(r, db) ==
    /\ r \in DOMAIN run
    /\ run[r].pc = "save"
    /\ LET batch == Slice(run[r].new_chunks, run[r].i, document.batch_size)
           next_i == run[r].i + document.batch_size
       IN  IF db = "error"
           THEN /\ run' = [run EXCEPT ![r].pc = "failed", ![r].fault = "database"]
                /\ UNCHANGED textbook_chunks
           ELSE IF UniqueViolation(batch, textbook_chunks)
           THEN \* IntegrityError: rollback of the batch, return False
                /\ run' = [run EXCEPT ![r].pc = "failed"]
                /\ UNCHANGED textbook_chunks
           ELSE /\ textbook_chunks' = textbook_chunks \o
                        [k \in DOMAIN batch |->
                            [content_hash |-> batch[k].content_hash, embedding |-> "vector"]]
                /\ run' = [run EXCEPT ![r].saved_count = @ + Len(batch),
                                      ![r].i = next_i,
                                      ![r].pc = IF next_i >= Len(run[r].new_chunks)
                                                THEN "done" ELSE "save"]
    /\ IngestUnchanged

InitIngest ==
    /\ \E chunks \in Documents, batch_size \in 1..MaxBatchSize :
          document = [chunks |-> chunks, batch_size |-> batch_size]
    /\ \E hs \in SUBSET (1..MaxHashes) : textbook_chunks = StoredRows(hs)
    /\ run = <<>>
    /\ NoCall
    /\ bv = [pc |-> "off"]
    /\ NoDocumentWork

NextIngest ==
    \/ StartRun
    \/ \E r \in 1..MaxRuns, reply \in {"vectors", "raise"} : GenerateEmbeddings(r, reply)
    \/ \E r \in 1..MaxRuns, db \in DbReplies : LookupExisting(r, db)
    \/ \E r \in 1..MaxRuns, db \in DbReplies : SaveBatch(r, db)

SpecIngest == InitIngest /\ [][NextIngest]_vars

----------------------------------------------------------------------------
(* Two ingestion runs of the same document at the same time.  Each run has *)
(* its own session: the rows it adds are pending in the session until      *)
(* session.commit() flushes and commits them, where the unique constraint  *)
(* of content_hash is enforced; the look-up reads the committed rows.  The *)
(* steps of a run are those of the runs above, a run may start while the   *)
(* other one is under way.                                                 *)

\* python ingest_textbooks.py, started while another run may be under way
StartConcurrentRun ==
    /\ Len(run) < MaxRuns
    /\ run' = Append(run, NewRun)
    /\ UNCHANGED textbook_chunks
    /\ IngestUnchanged

InitConcurrent == InitIngest

NextConcurrent ==
    \/ StartConcurrentRun
    \/ \E r \in 1..MaxRuns, reply \in {"vectors", "raise"} : GenerateEmbeddings(r, reply)
    \/ \E r \in 1..MaxRuns, db \in DbReplies : LookupExisting(r, db)
    \/ \E r \in 1..MaxRuns, db \in DbReplies : SaveBatch(r, db)

SpecConcurrent == InitConcurrent /\ [][NextConcurrent]_vars

----------------------------------------------------------------------------
(* Properties of RAGService, checked under SpecSearch *)

Ids(results) == {results[k].chunk_id : k \in DOMAIN results}

\* the score a result list gives a chunk, 0 if the chunk is not in the list
ScoreIn(results, id) ==
    IF \E k \in DOMAIN results : results[k].chunk_id = id
    THEN results[CHOOSE k \in DOMAIN results : results[k].chunk_id = id].score
    ELSE 0

\* C4: search and hybrid_search raise only for configuration errors (a query
\* vector of the wrong dimension, missing credentials); any other retrieval
\* failure gives an empty result list.
C4_OnlyConfigurationErrorsRaise ==
    call.op \in {"search", "hybrid"} => ret.raised \in {"none", "dimension", "credentials"}

\* C5: every result of vector search has score >= similarity_threshold.
C5_SearchScoreAtLeastThreshold ==
    call.op = "search" =>
        \A k \in DOMAIN ret.results : ret.results[k].score >= similarity_threshold

\* a search returned a row while a row below the threshold passed the filters
C5_Witness ==
    /\ call.op = "search"
    /\ ret.results # <<>>
    /\ \E i \in DOMAIN textbook_chunks :
          /\ textbook_chunks[i].sim < similarity_threshold
          /\ VectorFilterClause(textbook_chunks[i], call.f)

\* C6: no search operation returns more than min(top_k, max_results) results.
C6_AtMostMinTopKMaxResults ==
    call.op \in {"search", "keyword", "hybrid"} =>
        Len(ret.results) <= Min(call.top_k, max_results)

\* the metadata of a result equals the value supplied for a key of the
\* additional filters (a list value: equals one of its items)
MetadataEquals(metadata, item) ==
    CASE item.type = "str" -> JsonText(item.key, metadata[item.key]) = item.text
      [] item.type = "int" -> metadata[item.key] = item.number
      [] OTHER -> JsonText(item.key, metadata[item.key]) \in item.items

\* C7: in every search mode every returned record has metadata equal to each
\* supplied filter value: subject, grade, unit and every key of the additional
\* filters, whatever the value's type.
C7_FiltersAreExactMatchConjunctions ==
    call.op \in {"search", "keyword", "hybrid"} =>
        \A k \in DOMAIN ret.results :
            LET m == ret.results[k].metadata
            IN  /\ call.f.subject # None => m.subject = call.f.subject
                /\ call.f.grade # None => m.grade = call.f.grade
                /\ call.f.unit # None => m.unit = call.f.unit
                /\ \A item \in call.f.filters : MetadataEquals(m, item)

\* C8: the fused score of every record of either result set is
\* semantic_weight * vector score + keyword_weight * keyword score, an absent
\* score counting as zero; the returned results carry that score.
C8_FusedScoreIsWeightedSum ==
    path = "fused" =>
        LET d == CombinedScores(semantic_results, keyword_results,
                                call.semantic_weight, call.keyword_weight)
            expected(id) == call.semantic_weight * ScoreIn(semantic_results, id)
                            + call.keyword_weight * ScoreIn(keyword_results, id)
        IN  /\ Range(d.keys) = Ids(semantic_results) \cup Ids(keyword_results)
            /\ \A id \in Range(d.keys) : d.val[id] = expected(id)
            /\ \A k \in DOMAIN ret.results :
                  ret.results[k].score = expected(ret.results[k].chunk_id)

\* weights 0.7 / 0.3, a record only in the keyword results with score 0.8 is
\* returned with 0.24, and another record is in both result sets
C8_Witness ==
    /\ path = "fused"
    /\ call.semantic_weight = 7 /\ call.keyword_weight = 3
    /\ \E k \in DOMAIN ret.results :
          /\ ret.results[k].chunk_id \notin Ids(semantic_results)
          /\ ScoreIn(keyword_results, ret.results[k].chunk_id) = 80
          /\ ret.results[k].score = 240
    /\ Ids(semantic_results) \cap Ids(keyword_results) # {}

\* C9: hybrid_search returns its results in non-increasing order of score and
\* never more than top_k of them.
C9_HybridSortedAndTruncated ==
    (call.op = "hybrid" /\ ret.raised = "none") =>
        /\ Len(ret.results) <= call.top_k
        /\ \A k \in 1..(Len(ret.results) - 1) :
              ret.results[k].score >= ret.results[k + 1].score

\* a fusion that had more records than top_k and returned top_k of them, the
\* record ranked first by the vector search not being the first of the fusion
C9_Witness ==
    /\ path = "fused"
    /\ call.top_k >= 1
    /\ Len(ret.results) = call.top_k
    /\ Cardinality(Ids(semantic_results) \cup Ids(keyword_results)) > call.top_k
    /\ semantic_results # <<>>
    /\ ret.results[1].chunk_id # semantic_results[1].chunk_id

\* C10: every fused score is <= semantic_weight + keyword_weight.
C10_FusedScoreBounded ==
    path = "fused" =>
        \A k \in DOMAIN ret.results :
            ret.results[k].score <= (call.semantic_weight + call.keyword_weight) * 100

----------------------------------------------------------------------------
(* Properties of batch_vectorize_with_quality_control, under SpecVectorize *)

\* C2: the embedding function is called at most max_retries times for a
\* batch, whatever it does (raise, vectors of another dimension, an empty
\* list, success).
C2_EmbedCallsAtMostMaxRetries == bv.pc # "off" => bv.calls <= bv.max_retries

\* C24: the result has one vector per input chunk, in input order, and every
\* chunk whose preprocessed text was in a batch that embedded successfully
\* has, at its own index, the vector returned for that text.
C24_VectorsAlignedWithChunks ==
    bv.pc = "done" =>
        /\ Len(bv.final_embeddings) = Len(bv.text_chunks)
        /\ \A i \in DOMAIN bv.text_chunks :
              (i \in Range(bv.processed_chunks) /\ i \in Range(bv.all_embeddings))
                  => bv.final_embeddings[i] = i

\* C30: a chunk is sent to the embedding function exactly when its quality
\* score is above the quality_threshold argument of the call (and it has a
\* preprocessed text to send); every chunk at or below that threshold gets
\* the zero vector.
C30_ThresholdIsTheArgument ==
    bv.pc = "done" =>
        \A i \in DOMAIN bv.text_chunks :
            /\ i \in Range(bv.processed_chunks)
                  <=> (bv.text_chunks[i].score > bv.quality_threshold
                       /\ ~bv.text_chunks[i].processed_empty)
            /\ bv.text_chunks[i].score <= bv.quality_threshold
                  => bv.final_embeddings[i] = ZeroVector

----------------------------------------------------------------------------
(* Properties of the ingestion runs, under SpecIngest *)

\* C1: ingestion is idempotent: a second run on the same document inserts no
\* new record (neither run meeting a failure of the embedding API or of the
\* database connection).
C1_SecondRunInsertsNothing ==
    (/\ Len(run) >= 2
     /\ Finished(1) /\ Finished(2)
     /\ run[1].fault = "none" /\ run[2].fault = "none")
    => run[2].saved_count = 0

\* C3: when the embedding attempts fail, the run still persists all its
\* chunks (with zero vectors) instead of ending with nothing stored.
C3_EmbeddingFailureStillPersists ==
    \A r \in DOMAIN run :
        (Finished(r) /\ run[r].fault = "embedding") =>
            Hashes(HighQualityChunks(document.chunks)) \subseteq Hashes(textbook_chunks)

\* C20: partial ingestion is resumable: after a run that a database failure
\* interrupted (at the look-up or at the commit of a batch), a later run on
\* the same document that meets no failure of the embedding API or of the
\* database stores the rest: every chunk of the document is then in the
\* table, and no hash is stored twice.
C20_RerunStoresTheRest ==
    (/\ Len(run) >= 2
     /\ Finished(1) /\ Finished(2)
     /\ run[1].fault = "database" /\ run[2].fault = "none")
    => /\ Hashes(HighQualityChunks(document.chunks)) \subseteq Hashes(textbook_chunks)
       /\ \A j, k \in DOMAIN textbook_chunks :
             textbook_chunks[j].content_hash = textbook_chunks[k].content_hash => j = k

\* C25: duplicates inside one run are skipped, not failed: a call of
\* save_to_database that meets no failure of the database connection returns
\* success, and the table then holds exactly one row for each distinct
\* content_hash of the chunk list it was given.
C25_DuplicatesInRunSkipped ==
    \A r \in DOMAIN run :
        (Finished(r) /\ run[r].fault = "none" /\ run[r].embedded_chunks # <<>>) =>
            /\ run[r].pc = "done"
            /\ \A h \in Hashes(run[r].embedded_chunks) :
                  Cardinality({k \in DOMAIN textbook_chunks :
                                  textbook_chunks[k].content_hash = h}) = 1

\* C26, under SpecConcurrent: once two concurrent runs of the same document
\* have finished (neither meeting a failure of the embedding API or of the
\* database connection), every distinct chunk of the document is stored
\* exactly once.
C26_ConcurrentRunsStoreEachChunkOnce ==
    (/\ Len(run) = 2
     /\ Finished(1) /\ Finished(2)
     /\ run[1].fault = "none" /\ run[2].fault = "none")
    => \A h \in Hashes(HighQualityChunks(document.chunks)) :
          Cardinality({k \in DOMAIN textbook_chunks :
                          textbook_chunks[k].content_hash = h}) = 1

----------------------------------------------------------------------------
(* SimpleRecursiveTextSplitter._split_text (text_splitter.py) and the       *)
(* playroom SimpleTextSplitter.split_text.                                  *)
(*                                                                         *)
(* A text is a sequence of characters.  "a" is a character that is no      *)
(* separator, "z" a Chinese character, "." the full stop (U+3002)     *)
(* and " " the space: the last two are, in this order, separators of both  *)
(* splitters, and " " is the character str.strip() removes.  Offsets are   *)
(* Python's: the first character of a text is at offset 0.                 *)

MaxTextLen == 5
MaxChunkSize == 3
MaxOverlap == 2

Max(a, b) == IF a >= b THEN a ELSE b

Chars == {"a", "z", ".", " "}

Whitespace == {" "}

separators == <<".", " ">>

Texts == UNION {[1..n -> Chars] : n \in 0..MaxTextLen}

\* the text, chunk_size and chunk_overlap of the segmentation scenario
ScenarioLength == 3200
ScenarioChunkSize == 1500
ScenarioOverlap == 200
ScenarioText == [i \in 1..ScenarioLength |-> "a"]

\* text[start:end]
SliceOf(text, start, end) == SubSeq(text, start + 1, Min(end, Len(text)))

\* text.strip()
Strip(text) ==
    LET kept == {i \in DOMAIN text : text[i] \notin Whitespace}
    IN  IF kept = {} THEN <<>>
        ELSE SubSeq(text, CHOOSE i \in kept : \A j \in kept : i <= j,
                          CHOOSE i \in kept : \A j \in kept : i >= j)

\* text.rfind(separator, start, end) for a separator of one character
Rfind(text, separator, start, end) ==
    LET found == {p \in start..(end - 1) : text[p + 1] = separator}
    IN  IF found = {} THEN -1 ELSE CHOOSE p \in found : \A q \in found : p >= q

\* the first separator, in the order of the list, found after start
SplitSeparators(text, start, end) ==
    {k \in DOMAIN separators : Rfind(text, separators[k], start, end) > start}

\* lines 53-60: best_split
BestSplit(text, start, end) ==
    LET ks == SplitSeparators(text, start, end)
    IN  IF ks = {} THEN end
        ELSE Rfind(text, separators[CHOOSE k \in ks : \A j \in ks : k <= j], start, end) + 1

\* the locals of _split_text when the while loop is entered
SplitTextStart(text, chunk_size, chunk_overlap) ==
    [text |-> text, chunk_size |-> chunk_size, chunk_overlap |-> chunk_overlap,
     start |-> 0, chunks |-> <<>>, offsets |-> <<>>]

\* the end of the chunk that starts at `start`, lines 47-60
ChunkEnd(text, start, chunk_size) ==
    LET window == Min(start + chunk_size, Len(text))
    IN  IF window < Len(text) THEN BestSplit(text, start, window) ELSE window

\* one pass of the while loop, lines 46-67; offsets[i] is the start of the
\* window chunks[i] was cut from
SplitTextPass(st) ==
    LET end    == ChunkEnd(st.text, st.start, st.chunk_size)
        chunk  == SliceOf(st.text, st.start, end)
        keep   == Strip(chunk) # <<>>
    IN  [st EXCEPT !.chunks  = IF keep THEN Append(@, Strip(chunk)) ELSE @,
                   !.offsets = IF keep THEN Append(@, st.start) ELSE @,
                   !.start   = Max(st.start + 1, end - st.chunk_overlap)]

RECURSIVE SplitTextLoop(_)
SplitTextLoop(st) ==
    IF st.start < Len(st.text) THEN SplitTextLoop(SplitTextPass(st)) ELSE st

\* _split_text as a whole: the list it returns
SplitText(text, chunk_size, chunk_overlap) ==
    IF Len(text) <= chunk_size THEN <<text>>
    ELSE SplitTextLoop(SplitTextStart(text, chunk_size, chunk_overlap)).chunks

\* content.split(separator) for a separator of one character
RECURSIVE SplitOn(_, _)
SplitOn(content, separator) ==
    LET found == {i \in DOMAIN content : content[i] = separator}
    IN  IF found = {} THEN <<content>>
        ELSE LET i == CHOOSE j \in found : \A k \in found : j <= k
             IN  <<SubSeq(content, 1, i - 1)>>
                 \o SplitOn(SubSeq(content, i + 1, Len(content)), separator)

\* range(0, n, step): a step of 0 is a ValueError, told apart by the caller
RECURSIVE RangeFrom(_, _, _)
RangeFrom(i, n, step) ==
    IF step > 0 /\ i < n THEN <<i>> \o RangeFrom(i + step, n, step) ELSE <<>>

\* what stands for the ValueError of range() in a chunk list
ValueError == <<"ValueError">>

\* simple_text_splitter.py lines 48-53: the character-level split
CharacterSplit(content, chunk_size, chunk_overlap) ==
    IF chunk_size - chunk_overlap = 0 THEN <<ValueError>>
    ELSE LET starts == RangeFrom(0, Len(content), chunk_size - chunk_overlap)
         IN  [k \in DOMAIN starts |-> SliceOf(content, starts[k], starts[k] + chunk_size)]

\* lines 61-75: the parts are gathered into chunks of at most chunk_size
RECURSIVE GatherParts(_, _, _, _, _)
GatherParts(parts, separator, chunk_size, chunks, current_chunk) ==
    IF parts = <<>>
    THEN IF current_chunk # <<>> THEN Append(chunks, current_chunk) ELSE chunks
    ELSE LET part       == Head(parts)
             test_chunk == current_chunk
                           \o (IF current_chunk # <<>> THEN <<separator>> ELSE <<>>)
                           \o part
         IN  IF Len(test_chunk) <= chunk_size
             THEN GatherParts(Tail(parts), separator, chunk_size, chunks, test_chunk)
             ELSE GatherParts(Tail(parts), separator, chunk_size,
                              IF current_chunk # <<>> THEN Append(chunks, current_chunk)
                              ELSE chunks,
                              part)

RECURSIVE Flatten(_)
Flatten(lists) == IF lists = <<>> THEN <<>> ELSE Head(lists) \o Flatten(Tail(lists))

\* simple_text_splitter.py lines 44-85, seps being the separators left
RECURSIVE recursive_split(_, _, _, _)
recursive_split(content, seps, chunk_size, chunk_overlap) ==
    IF Len(content) <= chunk_size THEN <<content>>
    ELSE IF seps = <<>> THEN CharacterSplit(content, chunk_size, chunk_overlap)
    ELSE LET parts == SplitOn(content, Head(seps))
         IN  IF Len(parts) = 1
             THEN recursive_split(content, Tail(seps), chunk_size, chunk_overlap)
             ELSE LET chunks == GatherParts(parts, Head(seps), chunk_size, <<>>, <<>>)
                  IN  Flatten([k \in DOMAIN chunks |->
                          IF Len(chunks[k]) > chunk_size
                          THEN recursive_split(chunks[k], Tail(seps), chunk_size,
                                               chunk_overlap)
                          ELSE <<chunks[k]>>])

\* SimpleTextSplitter.split_text, lines 37-38 and 87
SimpleSplitText(text, chunk_size, chunk_overlap) ==
    IF Len(text) <= chunk_size THEN (IF text # <<>> THEN <<text>> ELSE <<>>)
    ELSE recursive_split(text, separators, chunk_size, chunk_overlap)

----------------------------------------------------------------------------
(* One call of a splitter on one text *)

SplitterUnchanged ==
    UNCHANGED <<textbook_chunks, call, ret, semantic_results, keyword_results, path,
                bv, document, run, quality, analyzer, preprocess, qa>>

HasNoSeparator(text) == \A i \in DOMAIN text : \A k \in DOMAIN separators : text[i] # separators[k]

SplitCall(impl, text, chunk_size, chunk_overlap) ==
    [pc |-> "call", impl |-> impl, text |-> text, chunk_size |-> chunk_size,
     chunk_overlap |-> chunk_overlap, start |-> 0, chunks |-> <<>>, offsets |-> <<>>,
     raised |-> FALSE]

\* _split_text, lines 39-43
SplitTextEnter ==
    /\ splitter.pc = "call"
    /\ splitter.impl = "_split_text"
    /\ splitter' = IF Len(splitter.text) <= splitter.chunk_size
                   THEN [splitter EXCEPT !.pc = "done", !.chunks = <<splitter.text>>,
                                         !.offsets = <<0>>]
                   ELSE [splitter EXCEPT !.pc = "loop"]
    /\ SplitterUnchanged

\* _split_text, one pass of the while loop or the return that ends it
SplitTextWhile ==
    /\ splitter.pc = "loop"
    /\ splitter' = IF splitter.start < Len(splitter.text)
                   THEN SplitTextPass(splitter)
                   ELSE [splitter EXCEPT !.pc = "done"]
    /\ SplitterUnchanged

\* SimpleTextSplitter.split_text; the offsets are those of the character-level
\* split when the whole text goes to it
SimpleSplit ==
    /\ splitter.pc = "call"
    /\ splitter.impl = "split_text"
    /\ LET chunks == SimpleSplitText(splitter.text, splitter.chunk_size,
                                     splitter.chunk_overlap)
           step   == splitter.chunk_size - splitter.chunk_overlap
       IN  splitter' =
             IF ValueError \in Range(chunks)
             THEN [splitter EXCEPT !.pc = "done", !.raised = TRUE]
             ELSE [splitter EXCEPT !.pc = "done", !.chunks = chunks,
                      !.offsets = IF Len(splitter.text) <= splitter.chunk_size
                                  THEN [k \in DOMAIN chunks |-> 0]
                                  ELSE IF HasNoSeparator(splitter.text)
                                  THEN RangeFrom(0, Len(splitter.text), step)
                                  ELSE <<>>]
    /\ SplitterUnchanged

InitSplit ==
    /\ \E impl \in {"_split_text", "split_text"} :
          \/ \E text \in Texts, chunk_size \in 1..MaxChunkSize,
                chunk_overlap \in 0..MaxOverlap :
                splitter = SplitCall(impl, text, chunk_size, chunk_overlap)
          \/ splitter = SplitCall(impl, ScenarioText, ScenarioChunkSize, ScenarioOverlap)
    /\ quality = [pc |-> "off"]
    /\ analyzer = [pc |-> "off"]
    /\ preprocess = [pc |-> "off"]
    /\ qa = [pc |-> "off"]
    /\ textbook_chunks = <<>>
    /\ NoCall
    /\ bv = [pc |-> "off"]
    /\ document = [chunks |-> <<>>, batch_size |-> 1]
    /\ run = <<>>

NextSplit ==
    \/ SplitTextEnter
    \/ SplitTextWhile
    \/ SimpleSplit

SpecSplit == InitSplit /\ [][NextSplit]_vars

----------------------------------------------------------------------------
(* Properties of the splitters, checked under SpecSplit *)

\* C11: every chunk a splitter returns has length <= chunk_size, and when the
\* text has no separator (the character-level path) every chunk but the last
\* has length exactly chunk_size.
C11_ChunkSizeBound ==
    (splitter.pc = "done" /\ ~splitter.raised) =>
        /\ \A i \in DOMAIN splitter.chunks : Len(splitter.chunks[i]) <= splitter.chunk_size
        /\ HasNoSeparator(splitter.text) =>
              \A i \in DOMAIN splitter.chunks :
                  i < Len(splitter.chunks) =>
                      Len(splitter.chunks[i]) = splitter.chunk_size

\* C12: a text of 3200 characters without separator, split with chunk_size
\* 1500 and chunk_overlap 200, gives exactly 3 chunks and the second starts
\* at offset 1300.
C12_ScenarioGivesThreeChunks ==
    (/\ splitter.pc = "done"
     /\ splitter.text = ScenarioText
     /\ splitter.chunk_size = ScenarioChunkSize
     /\ splitter.chunk_overlap = ScenarioOverlap) =>
        /\ Len(splitter.chunks) = 3
        /\ splitter.offsets[2] = ScenarioChunkSize - ScenarioOverlap

\* C27: for a text longer than chunk_size, _split_text emits exactly one
\* chunk whose end is the end of the text: after the first chunk that reaches
\* the end of the text no further chunk is produced.
C27_OneChunkReachesTheEnd ==
    (/\ splitter.pc = "done"
     /\ splitter.impl = "_split_text"
     /\ Len(splitter.text) > splitter.chunk_size) =>
        Cardinality({i \in DOMAIN splitter.offsets :
                        ChunkEnd(splitter.text, splitter.offsets[i], splitter.chunk_size)
                            = Len(splitter.text)}) = 1

----------------------------------------------------------------------------
(* The quality scorers: PDFTextSplitter._assess_text_quality,               *)
(* ChineseTextbookSplitter._assess_chinese_text_quality (text_splitter.py)  *)
(* and ChineseTextProcessor.assess_embedding_quality.                       *)
(*                                                                         *)
(* A text is given by what the scorers read of it:                         *)
(*   length         len(text)                                               *)
(*   margin         the leading and trailing white space text.strip() cuts  *)
(*   chinese_chars  the number of Chinese characters (U+4E00 to U+9FFF)     *)
(*   keyword_count  how many keywords of the scorer's list the text holds   *)
(*   marks          the structure patterns of the scorer that match:        *)
(*                  "di_colon" ^(第.*[：:]), "number" ^\d+[、.],            *)
(*                  "bullet" ^\*|^-, "lesson" 第[一二...\d]+课,             *)
(*                  "title" [《].*[》]                                      *)
(*   content_type   what _identify_chinese_content_type makes of it:        *)
(*                  "lesson" one of the types that score 0.2, "guide" one   *)
(*                  of those that score 0.1, "other" the rest               *)
(*   shape          "digits" ^\d+$, "page" ^page\s*\d+$, "dashes" ^-+$,     *)
(*                  "di_page" ^第\d+页$, "other" none of these              *)
(* Scores are in ten-thousandths; the Chinese ratio term is rounded down.  *)

MaxMargin == 1
MaxKeywords == 8

Lengths == {0, 1, 19, 20, 29, 30, 49, 50, 999, 1000, 1001, 1500, 1501, 2000, 2001}

Scorers == {"_assess_text_quality", "_assess_chinese_text_quality",
            "assess_embedding_quality"}

\* the structure patterns each scorer looks for
MarksOf(scorer) ==
    CASE scorer = "_assess_text_quality"         -> {"di_colon", "number", "bullet"}
      [] scorer = "_assess_chinese_text_quality" -> {"lesson", "number", "title"}
      [] OTHER                                   -> {"title", "number"}

\* the patterns that can only match a text with Chinese characters
ChineseMarks == {"di_colon", "lesson"}

\* the patterns anchored at the first character: at most one of them matches
AnchoredMarks == {"di_colon", "number", "bullet"}

Shapes == {"digits", "page", "dashes", "di_page", "other"}

ContentTypes == {"lesson", "guide", "other"}

StrippedLength(text) == text.length - text.margin

\* the feature records that describe some text for the scorer
IsText(scorer, text) ==
    LET n == StrippedLength(text)
    IN  /\ text.margin <= text.length
        /\ text.chinese_chars <= n
        /\ text.marks \subseteq MarksOf(scorer)
        /\ (scorer = "_assess_text_quality" =>
               Cardinality(text.marks \cap AnchoredMarks) <= 1)
        /\ (text.marks # {} => n >= 1)
        /\ (text.marks \ {"bullet"} # {} => n >= 2)
        /\ (text.marks \cap ChineseMarks # {} => text.chinese_chars >= 1)
        /\ (text.keyword_count > 0 => text.chinese_chars >= 2)
        /\ (text.content_type # "other" =>
               text.chinese_chars >= 2 /\ scorer = "_assess_chinese_text_quality")
        /\ (text.shape \in {"digits", "page", "dashes"} =>
               /\ text.chinese_chars = 0 /\ n >= 1
               /\ text.marks \subseteq (IF text.shape = "dashes" THEN {"bullet"} ELSE {}))
        /\ (text.shape = "di_page" =>
               /\ text.chinese_chars = 2 /\ text.marks = {}
               /\ text.keyword_count = 0 /\ text.content_type = "other"
               /\ n \in 3..19)

\* how many of the characters left by strip() are Chinese
ChineseCount(share, n) ==
    CASE share = "none" -> 0
      [] share = "one"  -> 1
      [] share = "two"  -> 2
      [] OTHER          -> n

TextInputs(scorer) ==
    {text \in {[length |-> length, margin |-> margin,
                chinese_chars |-> ChineseCount(share, length - margin),
                keyword_count |-> keyword_count, marks |-> marks,
                content_type |-> content_type, shape |-> shape] :
                    length \in Lengths, margin \in 0..MaxMargin,
                    share \in {"none", "one", "two", "all"},
                    keyword_count \in {0, 1, MaxKeywords},
                    marks \in SUBSET MarksOf(scorer),
                    content_type \in ContentTypes, shape \in Shapes} :
        IsText(scorer, text)}

Clamp(score) == Max(0, Min(10000, score))

\* the term for the Chinese characters: the penalty for none of them, else
\* chinese_ratio * weight
ChineseTerm_Rewarding(chinese_chars, length, penalty, weight) ==
    IF chinese_chars = 0 THEN penalty ELSE (weight * chinese_chars) \div length

ChineseTerm(chinese_chars, length, penalty, weight) ==
    IF chinese_chars = 0 THEN -penalty ELSE (weight * chinese_chars) \div length

Mark(text, mark, score) == IF mark \in text.marks THEN score ELSE 0

\* what a scorer gives back: the dictionary it returns or the exception
Assessed(is_suitable, score) == [raised |-> "none", is_suitable |-> is_suitable, score |-> score]
AssessRaised(kind) == [raised |-> kind, is_suitable |-> FALSE, score |-> 0]

\* PDFTextSplitter._assess_text_quality, text_splitter.py lines 262-313
AssessTextQuality(text) ==
    LET length == StrippedLength(text)
        score  == 10000
                  + (IF length < 50 THEN -5000 ELSE IF length > 2000 THEN -3000 ELSE 0)
                  + ChineseTerm(text.chinese_chars, length, 5000, 3000)
                  + Min(text.keyword_count * 1000, 5000)
                  + Mark(text, "di_colon", 2000)
                  + Mark(text, "number", 2000)
                  + Mark(text, "bullet", 1000)
    IN  IF length = 0 THEN Assessed(FALSE, 0)
        ELSE Assessed(Clamp(score) > 3000, Clamp(score))

\* how many of the six noise_patterns match, text_splitter.py lines 527-538
NoiseMatches(text) ==
    (IF text.shape \in {"digits", "page", "dashes", "di_page"} THEN 1 ELSE 0)
    + (IF text.chinese_chars = 0 THEN 1 ELSE 0)

\* ChineseTextbookSplitter._assess_chinese_text_quality, lines 468-551
AssessChineseTextQuality(text) ==
    LET length == StrippedLength(text)
        score  == 10000
                  + (IF length < 30 THEN -6000 ELSE IF length > 1500 THEN -2000 ELSE 0)
                  + ChineseTerm(text.chinese_chars, length, 8000, 4000)
                  + Min(text.keyword_count * 800, 6000)
                  + Mark(text, "lesson", 3000)
                  + Mark(text, "number", 2000)
                  + Mark(text, "title", 2000)
                  + (CASE text.content_type = "lesson" -> 2000
                       [] text.content_type = "guide"  -> 1000
                       [] OTHER -> 0)
                  - 5000 * NoiseMatches(text)
    IN  IF length = 0 THEN Assessed(FALSE, 0)
        ELSE Assessed(Clamp(score) > 4000, Clamp(score))

\* the first of the two noise_indicators that matches, lines 256-265
IsNoise(text) ==
    \/ text.shape = "digits"
    \/ text.shape = "dashes"
    \/ text.margin = text.length

\* ChineseTextProcessor.assess_embedding_quality, lines 199-278: the local
\* chinese_ratio is bound only in the else branch of line 234 and read at
\* line 276
AssessEmbeddingQuality(text) ==
    LET length == text.length
        score  == (CASE length < 20   -> -5000
                     [] length < 50   -> -2000
                     [] length > 1000 -> -1000
                     [] OTHER         -> 3000)
                  + ChineseTerm(text.chinese_chars, length, 8000, 4000)
                  + Min(text.keyword_count * 1000, 5000)
                  + Mark(text, "title", 2000)
                  + Mark(text, "number", 1000)
                  - (IF IsNoise(text) THEN 6000 ELSE 0)
    IN  IF length = 0 THEN Assessed(FALSE, 0)
        ELSE IF text.chinese_chars = 0 THEN AssessRaised("UnboundLocalError")
        ELSE Assessed(Clamp(score) > 4000, Clamp(score))

Assess(scorer, text) ==
    CASE scorer = "_assess_text_quality"         -> AssessTextQuality(text)
      [] scorer = "_assess_chinese_text_quality" -> AssessChineseTextQuality(text)
      [] OTHER                                   -> AssessEmbeddingQuality(text)

\* the threshold of each scorer's verdict, lines 308, 544 and 268
Threshold(scorer) == IF scorer = "_assess_text_quality" THEN 3000 ELSE 4000

----------------------------------------------------------------------------
(* One text, given to one scorer; then the same text with every Chinese     *)
(* character replaced by another character, given to the same scorer.       *)

QualityUnchanged ==
    UNCHANGED <<textbook_chunks, call, ret, semantic_results, keyword_results, path,
                bv, document, run, splitter, analyzer, preprocess, qa>>

\* the margins the text can have after the replacement: the white space put
\* in place of leading or trailing Chinese characters is cut by strip() too
ScrubbedMargins(text) ==
    {text.margin}
    \cup (IF text.chinese_chars >= 1 THEN {text.margin + 1} ELSE {})
    \cup (IF text.chinese_chars = StrippedLength(text) THEN {text.length} ELSE {})

\* the texts that replacing every Chinese character can give: the length is
\* kept, no keyword and no pattern with a Chinese character matches any more,
\* the other patterns may match or not
Scrubbed(scorer, text) ==
    IF text.chinese_chars = 0 THEN {text}
    ELSE {t \in {[length |-> text.length, margin |-> margin, chinese_chars |-> 0,
                  keyword_count |-> 0, marks |-> marks, content_type |-> "other",
                  shape |-> shape] :
                      margin \in ScrubbedMargins(text),
                      marks \in SUBSET (MarksOf(scorer) \ ChineseMarks),
                      shape \in Shapes \ {"di_page"}} :
             IsText(scorer, t)}

QualityCall(scorer, text) ==
    [pc |-> "text", scorer |-> scorer, text |-> text, result |-> Assessed(FALSE, 0),
     scrubbed |-> text, scrubbed_result |-> Assessed(FALSE, 0)]

\* the scorer is called on the text, and later on the scrubbed text
QualityAfter(scorer) ==
    IF quality.pc = "text"
    THEN [quality EXCEPT !.pc = "assessed", !.result = Assess(scorer, quality.text)]
    ELSE [quality EXCEPT !.pc = "compared",
                         !.scrubbed_result = Assess(scorer, quality.scrubbed)]

DoAssessTextQuality ==
    /\ quality.pc \in {"text", "scrubbed"}
    /\ quality.scorer = "_assess_text_quality"
    /\ quality' = QualityAfter("_assess_text_quality")
    /\ QualityUnchanged

DoAssessChineseTextQuality ==
    /\ quality.pc \in {"text", "scrubbed"}
    /\ quality.scorer = "_assess_chinese_text_quality"
    /\ quality' = QualityAfter("_assess_chinese_text_quality")
    /\ QualityUnchanged

DoAssessEmbeddingQuality ==
    /\ quality.pc \in {"text", "scrubbed"}
    /\ quality.scorer = "assess_embedding_quality"
    /\ quality' = QualityAfter("assess_embedding_quality")
    /\ QualityUnchanged

Scrub ==
    /\ quality.pc = "assessed"
    /\ \E t \in Scrubbed(quality.scorer, quality.text) :
          quality' = [quality EXCEPT !.pc = "scrubbed", !.scrubbed = t]
    /\ QualityUnchanged

InitQuality ==
    /\ \E scorer \in Scorers : \E text \in TextInputs(scorer) :
          quality = QualityCall(scorer, text)
    /\ splitter = [pc |-> "off"]
    /\ analyzer = [pc |-> "off"]
    /\ preprocess = [pc |-> "off"]
    /\ qa = [pc |-> "off"]
    /\ textbook_chunks = <<>>
    /\ NoCall
    /\ bv = [pc |-> "off"]
    /\ document = [chunks |-> <<>>, batch_size |-> 1]
    /\ run = <<>>

NextQuality ==
    \/ DoAssessTextQuality
    \/ DoAssessChineseTextQuality
    \/ DoAssessEmbeddingQuality
    \/ Scrub

SpecQuality == InitQuality /\ [][NextQuality]_vars

----------------------------------------------------------------------------
(* Properties of the quality scorers, checked under SpecQuality *)

\* C14: for every text each scorer returns a score in [0,1], and its verdict
\* is true exactly when the score is strictly greater than its threshold
\* (0.3 for _assess_text_quality, 0.4 for the two others).
C14_ScoreInRangeAndVerdictByThreshold ==
    quality.pc \notin {"off", "text"} =>
        /\ quality.result.raised = "none"
        /\ quality.result.score \in 0..10000
        /\ quality.result.is_suitable <=> quality.result.score > Threshold(quality.scorer)

\* C15: for a non-empty text without Chinese character
\* assess_embedding_quality returns normally, with is_suitable false.
C15_NoChineseReturnsUnsuitable ==
    (/\ quality.pc \notin {"off", "text"}
     /\ quality.scorer = "assess_embedding_quality"
     /\ quality.text.length > 0
     /\ quality.text.chinese_chars = 0) =>
        /\ quality.result.raised = "none"
        /\ ~quality.result.is_suitable

\* C16: the score of a text with every Chinese character replaced (length
\* unchanged) is never higher than the score of the text.
C16_ScrubbingNeverRaisesScore ==
    (/\ quality.pc = "compared"
     /\ quality.result.raised = "none"
     /\ quality.scrubbed_result.raised = "none") =>
        quality.scrubbed_result.score <= quality.result.score

\* a text with Chinese characters whose replacement makes a structure pattern
\* match that did not match before, and still scores above 0
C16_Witness ==
    /\ quality.pc = "compared"
    /\ quality.text.chinese_chars > 0
    /\ quality.result.raised = "none"
    /\ quality.scrubbed_result.raised = "none"
    /\ ~(quality.scrubbed.marks \subseteq quality.text.marks)
    /\ quality.scrubbed_result.score > 0
    /\ quality.scrubbed_result.score < quality.result.score

----------------------------------------------------------------------------
(* PDFTextSplitter.split_pdf_content: the pages of one document are split   *)
(* one after the other, the documents of a page that the scorer finds       *)
(* meaningful become chunks.  A chunk is kept as its page_number, its       *)
(* chunk_index and its total_chunks.                                        *)

MaxPageNumber == 2
MaxPageTextLen == 3

\* the characters of a page: the full stop is left to the texts above
PageChars == Chars \ {"."}

PageTexts == UNION {[1..n -> PageChars] : n \in 0..MaxPageTextLen}

\* _preprocess_page_text on a page of one line without page number: the line
\* is stripped
PreprocessPageText(text) == Strip(text)

\* what the scorer reads of a text of the splitter's alphabet
FeaturesOf(content) ==
    [length |-> Len(content), margin |-> Len(content) - Len(Strip(content)),
     chinese_chars |-> Cardinality({i \in DOMAIN content : content[i] = "z"}),
     keyword_count |-> 0, marks |-> {}, content_type |-> "other", shape |-> "other"]

IsMeaningful(content) == AssessTextQuality(FeaturesOf(content)).is_suitable

\* the chunks of one page, lines 184-217: document i (counted from 0) becomes
\* a chunk with chunk_index i if it is meaningful
RECURSIVE PageChunks_IndexZero(_, _, _)
PageChunks_IndexZero(page_number, documents, i) ==
    IF i >= Len(documents) THEN <<>>
    ELSE (IF IsMeaningful(documents[i + 1])
          THEN <<[page_number |-> page_number, chunk_index |-> 0,
                  total_chunks |-> Len(documents)]>>
          ELSE <<>>)
         \o PageChunks_IndexZero(page_number, documents, i + 1)

RECURSIVE PageChunks(_, _, _)
PageChunks(page_number, documents, i) ==
    IF i >= Len(documents) THEN <<>>
    ELSE (IF IsMeaningful(documents[i + 1])
          THEN <<[page_number |-> page_number, chunk_index |-> i,
                  total_chunks |-> Len(documents)]>>
          ELSE <<>>)
         \o PageChunks(page_number, documents, i + 1)

\* _split_page_content, lines 170-217
SplitPageContent(page_number, page_text, chunk_size, chunk_overlap) ==
    IF Strip(page_text) = <<>> THEN <<>>
    ELSE PageChunks(page_number,
                    SplitText(PreprocessPageText(page_text), chunk_size, chunk_overlap),
                    0)

PdfUnchanged ==
    UNCHANGED <<textbook_chunks, call, ret, semantic_results, keyword_results, path,
                bv, document, run, quality, analyzer, preprocess, qa>>

PdfCall(chunk_size, chunk_overlap) ==
    [pc |-> "pages", chunk_size |-> chunk_size, chunk_overlap |-> chunk_overlap,
     page_numbers |-> <<>>, chunks |-> <<>>]

\* one pass of the loop over the pages, lines 159-161; the pages come in
\* increasing page_number order
SplitPage(page_number, page_text) ==
    /\ splitter.pc = "pages"
    /\ \A k \in DOMAIN splitter.page_numbers : splitter.page_numbers[k] < page_number
    /\ splitter' = [splitter EXCEPT
                       !.page_numbers = Append(@, page_number),
                       !.chunks = @ \o SplitPageContent(page_number, page_text,
                                                        splitter.chunk_size,
                                                        splitter.chunk_overlap)]
    /\ PdfUnchanged

\* lines 163-164: return chunks
ReturnChunks ==
    /\ splitter.pc = "pages"
    /\ splitter' = [splitter EXCEPT !.pc = "done"]
    /\ PdfUnchanged

InitPdf ==
    /\ \E chunk_size \in 1..MaxChunkSize, chunk_overlap \in 0..MaxOverlap :
          splitter = PdfCall(chunk_size, chunk_overlap)
    /\ quality = [pc |-> "off"]
    /\ analyzer = [pc |-> "off"]
    /\ preprocess = [pc |-> "off"]
    /\ qa = [pc |-> "off"]
    /\ textbook_chunks = <<>>
    /\ NoCall
    /\ bv = [pc |-> "off"]
    /\ document = [chunks |-> <<>>, batch_size |-> 1]
    /\ run = <<>>

NextPdf ==
    \/ \E page_number \in 1..MaxPageNumber, page_text \in PageTexts :
          SplitPage(page_number, page_text)
    \/ ReturnChunks

SpecPdf == InitPdf /\ [][NextPdf]_vars

----------------------------------------------------------------------------
(* Properties of split_pdf_content, checked under SpecPdf *)

\* (page_number, chunk_index) of a before that of b
ChunkBefore(a, b) ==
    \/ a.page_number < b.page_number
    \/ a.page_number = b.page_number /\ a.chunk_index < b.chunk_index

\* C13: the chunks split_pdf_content returns for pages given in increasing
\* page_number order are non-decreasing in (page_number, chunk_index) and no
\* two of them have the same (page_number, chunk_index), also when documents
\* of low quality are dropped.
C13_ChunksOrderedAndDistinct ==
    splitter.pc = "done" =>
        \A i, j \in DOMAIN splitter.chunks :
            i < j => ChunkBefore(splitter.chunks[i], splitter.chunks[j])

\* two pages were split, a document of the first page was dropped between
\* two that were kept
C13_Witness ==
    /\ splitter.pc = "done"
    /\ Len(splitter.page_numbers) = 2
    /\ \E i, j, k \in DOMAIN splitter.chunks :
          /\ i < j /\ j < k
          /\ splitter.chunks[i].page_number = splitter.chunks[j].page_number
          /\ splitter.chunks[j].chunk_index > splitter.chunks[i].chunk_index + 1
          /\ splitter.chunks[k].page_number > splitter.chunks[j].page_number

----------------------------------------------------------------------------
(* split_pdf_content on the splitter create_pdf_splitter returns.  A        *)
(* document of a page is kept as the features the scorers read of it; the   *)
(* documents create_documents returns are stripped and not empty.  A chunk  *)
(* is its page_number, its chunk_index, its text and its quality_score.     *)

\* create_pdf_splitter, lines 624-651: the class of the instance
CreatePdfSplitter(subject) ==
    IF subject = "yuwen" THEN "ChineseTextbookSplitter" ELSE "PDFTextSplitter"

\* the methods each class body defines
MethodsOf(cls) ==
    IF cls = "ChineseTextbookSplitter"
    THEN {"__init__", "_get_chinese_separators", "_identify_chinese_content_type",
          "_assess_chinese_text_quality", "split_page_content"}
    ELSE {"__init__", "_get_pdf_separators", "split_pdf_content", "_split_page_content",
          "_preprocess_page_text", "_is_page_number_line", "_assess_text_quality",
          "_identify_content_type", "get_splitting_stats"}

\* self.<name> on an instance of cls: the class whose definition is found
\* first, the class itself and then its base PDFTextSplitter
DefiningClass(cls, name) == IF name \in MethodsOf(cls) THEN cls ELSE "PDFTextSplitter"

\* the scorer the page method found for the call of line 160,
\* self._split_page_content(page, pdf_result), applies: line 189 of
\* PDFTextSplitter._split_page_content
PageQuality(cls, text) ==
    IF DefiningClass(cls, "_split_page_content") = "PDFTextSplitter"
    THEN IF DefiningClass(cls, "_assess_text_quality") = "PDFTextSplitter"
         THEN AssessTextQuality(text) ELSE AssessChineseTextQuality(text)
    ELSE AssessChineseTextQuality(text)

\* documents of a page: short and long enough, without, with one and with
\* only Chinese characters, without or with a keyword
DomainTexts ==
    {text \in {[length |-> length, margin |-> 0,
                chinese_chars |-> ChineseCount(share, length),
                keyword_count |-> keyword_count, marks |-> {},
                content_type |-> "other", shape |-> "other"] :
                    length \in {29, 30, 50}, share \in {"none", "one", "all"},
                    keyword_count \in {0, 1}} :
        /\ IsText("_assess_text_quality", text)
        /\ IsText("_assess_chinese_text_quality", text)}

DomainDocumentLists ==
    {<<>>} \cup {<<t>> : t \in DomainTexts} \cup {<<t, u>> : t, u \in DomainTexts}

\* lines 184-217 on the documents of one page
RECURSIVE DomainPageChunks(_, _, _, _)
DomainPageChunks(cls, page_number, documents, i) ==
    IF i >= Len(documents) THEN <<>>
    ELSE LET text_quality == PageQuality(cls, documents[i + 1])
         IN  (IF text_quality.is_suitable
              THEN <<[page_number |-> page_number, chunk_index |-> i,
                      text |-> documents[i + 1],
                      quality_score |-> text_quality.score]>>
              ELSE <<>>)
             \o DomainPageChunks(cls, page_number, documents, i + 1)

DomainPdfCall(subject) ==
    [pc |-> "domain_pages", cls |-> CreatePdfSplitter(subject), page_numbers |-> <<>>,
     chunks |-> <<>>]

\* one pass of the loop over the pages, lines 159-161
SplitDomainPage(page_number, documents) ==
    /\ splitter.pc = "domain_pages"
    /\ \A k \in DOMAIN splitter.page_numbers : splitter.page_numbers[k] < page_number
    /\ splitter' = [splitter EXCEPT
                       !.page_numbers = Append(@, page_number),
                       !.chunks = @ \o DomainPageChunks(splitter.cls, page_number,
                                                        documents, 0)]
    /\ PdfUnchanged

\* lines 163-164: return chunks
ReturnDomainChunks ==
    /\ splitter.pc = "domain_pages"
    /\ splitter' = [splitter EXCEPT !.pc = "done"]
    /\ PdfUnchanged

InitDomainPdf ==
    /\ \E subject \in Subjects : splitter = DomainPdfCall(subject)
    /\ quality = [pc |-> "off"]
    /\ analyzer = [pc |-> "off"]
    /\ preprocess = [pc |-> "off"]
    /\ qa = [pc |-> "off"]
    /\ textbook_chunks = <<>>
    /\ NoCall
    /\ bv = [pc |-> "off"]
    /\ document = [chunks |-> <<>>, batch_size |-> 1]
    /\ run = <<>>

NextDomainPdf ==
    \/ \E page_number \in 1..MaxPageNumber, documents \in DomainDocumentLists :
          SplitDomainPage(page_number, documents)
    \/ ReturnDomainChunks

SpecDomainPdf == InitDomainPdf /\ [][NextDomainPdf]_vars

----------------------------------------------------------------------------
(* Properties of the domain-specific splitter, checked under SpecDomainPdf *)

\* C29: every chunk split_pdf_content returns on the ChineseTextbookSplitter
\* of create_pdf_splitter(subject='yuwen') has passed the domain-specific
\* quality check: its score of _assess_chinese_text_quality is > 0.4.
C29_DomainChunksPassDomainCheck ==
    (splitter.pc = "done" /\ splitter.cls = "ChineseTextbookSplitter") =>
        \A k \in DOMAIN splitter.chunks :
            AssessChineseTextQuality(splitter.chunks[k].text).score > 4000

----------------------------------------------------------------------------
(* ChineseTextbookAnalyzer._chinese_number_to_int and the directory lessons *)
(* that take their unit_number from it.                                     *)
(*                                                                         *)
(* A token is what the group ([一二三四五六七八九十\d]+) of the unit header  *)
(* pattern matched: a non-empty sequence of numerals and digits.  The      *)
(* numerals 一 .. 十 are written "yi" .. "shi".                             *)

MaxTokenLen == 2

Numerals == <<"yi", "er", "san", "si", "wu", "liu", "qi", "ba", "jiu", "shi">>

Digits == <<"0", "1", "2", "3", "4", "5", "6", "7", "8", "9">>

TokenChars == Range(Numerals) \cup Range(Digits)

Tokens == UNION {[1..n -> TokenChars] : n \in 1..MaxTokenLen}

\* chinese_map, lines 450-453
chinese_map == [c \in Range(Numerals) |-> CHOOSE v \in DOMAIN Numerals : Numerals[v] = c]

\* chinese_map.get(c, 0)
ChineseMapGet(c) == IF c \in DOMAIN chinese_map THEN chinese_map[c] ELSE 0

\* str.isdigit()
IsDigit(token) == \A i \in DOMAIN token : token[i] \in Range(Digits)

DigitValue(c) == (CHOOSE v \in DOMAIN Digits : Digits[v] = c) - 1

\* int(chinese_num) for a token of digits
RECURSIVE IntOf(_)
IntOf(token) ==
    IF token = <<>> THEN 0
    ELSE 10 * IntOf(SubSeq(token, 1, Len(token) - 1)) + DigitValue(token[Len(token)])

\* _chinese_number_to_int, lines 448-471
ChineseNumberToInt(chinese_num) ==
    IF IsDigit(chinese_num) THEN IntOf(chinese_num)
    ELSE IF Len(chinese_num) = 1 /\ chinese_num[1] \in DOMAIN chinese_map
    THEN chinese_map[chinese_num[1]]
    ELSE IF Len(chinese_num) = 2 /\ chinese_num[1] = "shi"
    THEN 10 + ChineseMapGet(chinese_num[2])
    ELSE IF Len(chinese_num) = 2 /\ chinese_num[2] = "shi"
    THEN ChineseMapGet(chinese_num[1]) * 10
    ELSE 1

\* the tokens the conversion knows: digits, one numeral, 十x and x十
IsRecognized(token) ==
    \/ IsDigit(token)
    \/ Len(token) = 1
    \/ Len(token) = 2 /\ (token[1] = "shi" \/ token[2] = "shi")

AnalyzerUnchanged ==
    UNCHANGED <<textbook_chunks, call, ret, semantic_results, keyword_results, path,
                bv, document, run, splitter, quality, preprocess, qa>>

\* a directory with one unit section, headed by the token, and the lesson
\* lines of that section: (lesson number, start page)
LessonLines == {<<>>, <<[lesson_number |-> 1, start_page |-> 2]>>,
                <<[lesson_number |-> 1, start_page |-> 2],
                  [lesson_number |-> 2, start_page |-> 5]>>}

DirectoryCall(unit_chinese, lesson_matches) ==
    [pc |-> "section", unit_chinese |-> unit_chinese, lesson_matches |-> lesson_matches,
     unit_number |-> 0, lessons |-> <<>>]

\* _extract_lessons_from_directory, lines 368-371: the header of the section
EnterUnitSection ==
    /\ analyzer.pc = "section"
    /\ analyzer' = [analyzer EXCEPT !.pc = "lessons",
                       !.unit_number = ChineseNumberToInt(analyzer.unit_chinese)]
    /\ AnalyzerUnchanged

\* lines 378-392: one lesson line of the section becomes a LessonInfo, or the
\* function returns when the lines are used up
ExtractDirectoryLesson ==
    /\ analyzer.pc = "lessons"
    /\ analyzer' =
          IF analyzer.lesson_matches = <<>> THEN [analyzer EXCEPT !.pc = "done"]
          ELSE [analyzer EXCEPT
                   !.lesson_matches = Tail(@),
                   !.lessons = Append(@,
                       [unit_number   |-> analyzer.unit_number,
                        lesson_number |-> Head(analyzer.lesson_matches).lesson_number,
                        start_page    |-> Head(analyzer.lesson_matches).start_page])]
    /\ AnalyzerUnchanged

InitNumber ==
    /\ \E token \in Tokens, lesson_matches \in LessonLines :
          analyzer = DirectoryCall(token, lesson_matches)
    /\ splitter = [pc |-> "off"]
    /\ quality = [pc |-> "off"]
    /\ preprocess = [pc |-> "off"]
    /\ qa = [pc |-> "off"]
    /\ textbook_chunks = <<>>
    /\ NoCall
    /\ bv = [pc |-> "off"]
    /\ document = [chunks |-> <<>>, batch_size |-> 1]
    /\ run = <<>>

NextNumber ==
    \/ EnterUnitSection
    \/ ExtractDirectoryLesson

SpecNumber == InitNumber /\ [][NextNumber]_vars

----------------------------------------------------------------------------
(* Properties of the numeral conversion, checked under SpecNumber *)

\* C19: every lesson of the analyzer has unit_number >= 1: for every token of
\* numerals and digits the conversion gives an integer >= 1, and 1 for a
\* token it does not recognize.
C19_UnitNumberAtLeastOne ==
    analyzer.pc \in {"lessons", "done"} =>
        /\ analyzer.unit_number >= 1
        /\ \A i \in DOMAIN analyzer.lessons : analyzer.lessons[i].unit_number >= 1
        /\ ~IsRecognized(analyzer.unit_chinese) => analyzer.unit_number = 1

----------------------------------------------------------------------------
(* ChineseTextbookAnalyzer._extract_units_from_directory.                   *)
(*                                                                         *)
(* A chunk is its page_number, whether its content holds the word for      *)
(* "table of contents" (mulu) or the word for "unit" (danyuan), and the     *)
(* tokens of the unit headers in it, in the order re.findall gives them.    *)

MaxHeaders == 2

HeaderTokens == {<<"yi">>, <<"er">>, <<"jiu">>}

HeaderLists == UNION {[1..n -> HeaderTokens] : n \in 0..MaxHeaders}

\* a directory that names eight units, the last of them unit nine
FullDirectory == <<<<"yi">>, <<"er">>, <<"san">>, <<"si">>, <<"wu">>, <<"liu">>,
                   <<"qi">>, <<"jiu">>>>

DirectoryChunk(page_number, mulu, danyuan, unit_headers) ==
    [page_number |-> page_number, mulu |-> mulu, danyuan |-> danyuan,
     unit_headers |-> unit_headers]

\* the chunks a page can bring: none, or one chunk
ChunksOfPage(page_number) ==
    {<<>>, <<DirectoryChunk(page_number, FALSE, FALSE, <<>>)>>,
           <<DirectoryChunk(page_number, TRUE, FALSE, <<>>)>>}
    \cup {<<DirectoryChunk(page_number, FALSE, TRUE, headers)>> : headers \in HeaderLists}

\* the chunk lists, sorted by page_number as analyze_textbook_structure
\* passes them
DirectoryChunkLists ==
    {p3 \o p4 \o p5 : p3 \in ChunksOfPage(3), p4 \in ChunksOfPage(4),
                      p5 \in ChunksOfPage(5)}
    \cup {<<DirectoryChunk(4, TRUE, TRUE, FullDirectory)>>}

\* line 178: the chunk is part of the directory
IsDirectoryChunk(chunk) ==
    chunk.page_number \in {4, 5} /\ (chunk.mulu \/ chunk.danyuan)

\* re.findall(unit_pattern, directory_content), lines 173-186
RECURSIVE UnitMatches(_)
UnitMatches(chunks) ==
    IF chunks = <<>> THEN <<>>
    ELSE (IF IsDirectoryChunk(Head(chunks)) THEN Head(chunks).unit_headers ELSE <<>>)
         \o UnitMatches(Tail(chunks))

UnitInfo(unit_number) == [page |-> 4, unit_number |-> unit_number]

\* lines 203-213: the units of 1..8 not found are added, from i on
RECURSIVE MissingUnits(_, _)
MissingUnits(found_numbers, i) ==
    IF i > 8 THEN <<>>
    ELSE (IF i \notin found_numbers THEN <<UnitInfo(i)>> ELSE <<>>)
         \o MissingUnits(found_numbers, i + 1)

\* sorted(units, key=unit_number): a stable sort
RECURSIVE InsertUnit(_, _)
InsertUnit(sorted, unit) ==
    IF sorted = <<>> THEN <<unit>>
    ELSE IF Head(sorted).unit_number <= unit.unit_number
    THEN <<Head(sorted)>> \o InsertUnit(Tail(sorted), unit)
    ELSE <<unit>> \o sorted

RECURSIVE SortedUnits(_)
SortedUnits(units) ==
    IF units = <<>> THEN <<>>
    ELSE InsertUnit(SortedUnits(SubSeq(units, 1, Len(units) - 1)), units[Len(units)])

UnitsCall(chunks) ==
    [pc |-> "start", chunks |-> chunks, found |-> FALSE, unit_matches |-> <<>>,
     units |-> <<>>, result |-> <<>>]

\* lines 169-186: the directory pages are gathered and searched for headers
CollectDirectoryContent ==
    /\ analyzer.pc = "start"
    /\ LET found == \E i \in DOMAIN analyzer.chunks : IsDirectoryChunk(analyzer.chunks[i])
       IN  analyzer' = [analyzer EXCEPT !.pc = IF found THEN "matches" ELSE "return",
                                        !.found = found,
                                        !.unit_matches = UnitMatches(analyzer.chunks)]
    /\ AnalyzerUnchanged

\* lines 188-198: one header becomes a unit
ExtractUnit ==
    /\ analyzer.pc = "matches"
    /\ analyzer.unit_matches # <<>>
    /\ analyzer' = [analyzer EXCEPT
                       !.unit_matches = Tail(@),
                       !.units = Append(@,
                           UnitInfo(ChineseNumberToInt(Head(analyzer.unit_matches))))]
    /\ AnalyzerUnchanged

\* lines 200-213: fewer than 8 units found, the missing numbers are added
CompleteUnits ==
    /\ analyzer.pc = "matches"
    /\ analyzer.unit_matches = <<>>
    /\ LET found_numbers == {analyzer.units[i].unit_number : i \in DOMAIN analyzer.units}
       IN  analyzer' = [analyzer EXCEPT
                           !.pc = "return",
                           !.units = IF Len(analyzer.units) < 8
                                     THEN @ \o MissingUnits(found_numbers, 1)
                                     ELSE @]
    /\ AnalyzerUnchanged

\* line 215: sorted(units, key=unit_number)[:8]
ReturnUnits ==
    /\ analyzer.pc = "return"
    /\ analyzer' = [analyzer EXCEPT !.pc = "done",
                                    !.result = SubSeq(SortedUnits(analyzer.units), 1,
                                                      Min(8, Len(analyzer.units)))]
    /\ AnalyzerUnchanged

InitDirectory ==
    /\ \E chunks \in DirectoryChunkLists : analyzer = UnitsCall(chunks)
    /\ splitter = [pc |-> "off"]
    /\ quality = [pc |-> "off"]
    /\ preprocess = [pc |-> "off"]
    /\ qa = [pc |-> "off"]
    /\ textbook_chunks = <<>>
    /\ NoCall
    /\ bv = [pc |-> "off"]
    /\ document = [chunks |-> <<>>, batch_size |-> 1]
    /\ run = <<>>

NextDirectory ==
    \/ CollectDirectoryContent
    \/ ExtractUnit
    \/ CompleteUnits
    \/ ReturnUnits

SpecDirectory == InitDirectory /\ [][NextDirectory]_vars

----------------------------------------------------------------------------
(* Properties of the directory extraction, checked under SpecDirectory *)

\* C18: whenever directory text is found, the unit list returned holds every
\* unit number 1..8 exactly once.
C18_UnitListComplete ==
    (analyzer.pc = "done" /\ analyzer.found) =>
        [i \in DOMAIN analyzer.result |-> analyzer.result[i].unit_number]
            = [i \in 1..8 |-> i]

----------------------------------------------------------------------------
(* chinese_textbook_analyzer.py: _assign_content_to_lessons.               *)
(* A chunk's content is kept as what the method asks of it: the lesson     *)
(* titles it contains, whether it contains the word for "unit", whether it *)
(* contains a section name, and the unit titles it contains.               *)

MaxLessonPage == 2

LessonPages == 0..MaxLessonPage

LessonTitles == {"t1", "t2"}

\* f"第{unit_number}单元"
UnitTitle(unit_number) == <<"unit", unit_number>>

\* (unit_number, lesson_title): the key _extract_lessons keeps once
LessonKeys == {<<1, "t1">>, <<2, "t2">>, <<2, "t1">>}

\* end_page: Optional[int] = None is kept as a sequence of at most one page
LessonInfo(key, start_page) ==
    [unit_number |-> key[1], unit_title |-> UnitTitle(key[1]), lesson_title |-> key[2],
     start_page |-> start_page, end_page |-> <<>>, content_chunks |-> <<>>]

\* the lists _extract_lessons returns: no key twice, in any order, each
\* lesson with any start page
LessonLists ==
    {<<>>}
    \cup {<<LessonInfo(k, p)>> : k \in LessonKeys, p \in LessonPages}
    \cup {<<LessonInfo(k1, p1), LessonInfo(k2, p2)>> :
            <<k1, k2, p1, p2>> \in
                {q \in LessonKeys \X LessonKeys \X LessonPages \X LessonPages :
                    q[1] # q[2]}}
    \cup {<<LessonInfo(k1, p1), LessonInfo(k2, p2), LessonInfo(k3, p3)>> :
            <<k1, k2, k3, p1, p2, p3>> \in
                {q \in LessonKeys \X LessonKeys \X LessonKeys
                        \X LessonPages \X LessonPages \X LessonPages :
                    q[1] # q[2] /\ q[1] # q[3] /\ q[2] # q[3]}}

Content(titles, danyuan, section, unit_titles) ==
    [titles |-> titles, danyuan |-> danyuan, section |-> section,
     unit_titles |-> unit_titles]

\* plain text, a lesson title, the other lesson title, a lesson title under
\* its unit header, a section name, the header of unit 2
Contents ==
    {Content({}, FALSE, FALSE, {}),
     Content({"t1"}, FALSE, FALSE, {}),
     Content({"t2"}, FALSE, FALSE, {}),
     Content({"t1"}, TRUE, FALSE, {UnitTitle(1)}),
     Content({}, FALSE, TRUE, {}),
     Content({}, TRUE, FALSE, {UnitTitle(2)})}

LessonChunk(page_number, content) == [page_number |-> page_number, content |-> content]

\* sorted_chunks: per page no chunk or one chunk, in page order
RECURSIVE LessonChunkLists(_)
LessonChunkLists(page) ==
    IF page > MaxLessonPage THEN {<<>>}
    ELSE {head \o rest : head \in {<<>>} \cup {<<LessonChunk(page, c)>> : c \in Contents},
                         rest \in LessonChunkLists(page + 1)}

\* lines 428-446
IsContentFromOtherLesson(content, current_lesson, all_lessons) ==
    \/ \E j \in DOMAIN all_lessons :
          /\ all_lessons[j].lesson_title # current_lesson.lesson_title
          /\ all_lessons[j].lesson_title \in content.titles
    \/ content.danyuan /\ current_lesson.unit_title \notin content.unit_titles
    \/ content.section /\ current_lesson.unit_title \notin content.unit_titles

\* line 402: the page before the next lesson of the list, 999 for the last
RangeEnd(lessons, i) ==
    IF i + 1 <= Len(lessons) THEN lessons[i + 1].start_page - 1 ELSE 999

\* lines 409-421 with the start of the page range left out
IsAssigned_NoStart(chunk, lesson, end_page, lessons) ==
    /\ chunk.page_number <= end_page
    /\ \/ chunk.page_number = lesson.start_page
          /\ lesson.lesson_title \in chunk.content.titles
       \/ chunk.page_number # lesson.start_page
          /\ ~IsContentFromOtherLesson(chunk.content, lesson, lessons)

\* lines 409-421: the chunk is appended to the lesson
IsAssigned(chunk, lesson, end_page, lessons) ==
    /\ lesson.start_page <= chunk.page_number
    /\ chunk.page_number <= end_page
    /\ \/ chunk.page_number = lesson.start_page
          /\ lesson.lesson_title \in chunk.content.titles
       \/ chunk.page_number > lesson.start_page
          /\ ~IsContentFromOtherLesson(chunk.content, lesson, lessons)

\* lines 405-421: the chunks appended, in the order of the list
RECURSIVE AssignedChunks(_, _, _, _)
AssignedChunks(chunks, lesson, end_page, lessons) ==
    IF chunks = <<>> THEN <<>>
    ELSE (IF IsAssigned(Head(chunks), lesson, end_page, lessons)
          THEN <<Head(chunks)>> ELSE <<>>)
         \o AssignedChunks(Tail(chunks), lesson, end_page, lessons)

\* line 425: max(chunk.get('page_number', 0) for chunk in lesson.content_chunks)
RECURSIVE MaxPageOf(_)
MaxPageOf(content_chunks) ==
    IF Len(content_chunks) = 1 THEN content_chunks[1].page_number
    ELSE Max(Head(content_chunks).page_number, MaxPageOf(Tail(content_chunks)))

AssignCall(chunks, lessons) ==
    [pc |-> "assign", chunks |-> chunks, lessons |-> lessons, i |-> 1]

\* lines 399-426: one round of the loop over the lessons
AssignLesson ==
    /\ analyzer.pc = "assign"
    /\ analyzer.i <= Len(analyzer.lessons)
    /\ LET lesson == analyzer.lessons[analyzer.i]
           content_chunks ==
               lesson.content_chunks
               \o AssignedChunks(analyzer.chunks, lesson,
                                 RangeEnd(analyzer.lessons, analyzer.i), analyzer.lessons)
       IN  analyzer' = [analyzer EXCEPT
                           !.i = @ + 1,
                           !.lessons[analyzer.i].content_chunks = content_chunks,
                           !.lessons[analyzer.i].end_page =
                               IF content_chunks # <<>> THEN <<MaxPageOf(content_chunks)>>
                               ELSE @]
    /\ AnalyzerUnchanged

\* analyze_textbook_structure, lines 149-158: the lessons are returned
ReturnStructure ==
    /\ analyzer.pc = "assign"
    /\ analyzer.i > Len(analyzer.lessons)
    /\ analyzer' = [analyzer EXCEPT !.pc = "done"]
    /\ AnalyzerUnchanged

InitAssign ==
    /\ \E chunks \in LessonChunkLists(0), lessons \in LessonLists :
          analyzer = AssignCall(chunks, lessons)
    /\ splitter = [pc |-> "off"]
    /\ quality = [pc |-> "off"]
    /\ preprocess = [pc |-> "off"]
    /\ qa = [pc |-> "off"]
    /\ textbook_chunks = <<>>
    /\ NoCall
    /\ bv = [pc |-> "off"]
    /\ document = [chunks |-> <<>>, batch_size |-> 1]
    /\ run = <<>>

NextAssign ==
    \/ AssignLesson
    \/ ReturnStructure

SpecAssign == InitAssign /\ [][NextAssign]_vars

----------------------------------------------------------------------------
(* Properties of the content assignment, checked under SpecAssign *)

\* C17: after the analysis every lesson with an end page has
\* start_page <= end_page, and every chunk among a lesson's content_chunks
\* is on a page >= the lesson's start_page, whatever the chunks and the
\* order of the lessons.
C17_LessonSpan ==
    analyzer.pc = "done" =>
        \A i \in DOMAIN analyzer.lessons :
            LET lesson == analyzer.lessons[i]
            IN  /\ lesson.end_page # <<>> => lesson.start_page <= lesson.end_page[1]
                /\ \A j \in DOMAIN lesson.content_chunks :
                      lesson.content_chunks[j].page_number >= lesson.start_page

\* two lessons listed against the order of their start pages, the later one
\* of the list given chunks up to a page after its start page
C17_Witness ==
    /\ analyzer.pc = "done"
    /\ Len(analyzer.lessons) = 2
    /\ analyzer.lessons[1].start_page > analyzer.lessons[2].start_page
    /\ analyzer.lessons[2].end_page # <<>>
    /\ analyzer.lessons[2].end_page[1] > analyzer.lessons[2].start_page
    /\ Len(analyzer.lessons[2].content_chunks) >= 2

\* C28: after _assign_content_to_lessons every chunk is among the
\* content_chunks of at most one lesson, whatever the order of the lessons'
\* start pages in the list.
C28_ChunkInAtMostOneLesson ==
    analyzer.pc = "done" =>
        \A c \in DOMAIN analyzer.chunks :
            Cardinality({i \in DOMAIN analyzer.lessons :
                            analyzer.chunks[c] \in Range(analyzer.lessons[i].content_chunks)})
                <= 1

----------------------------------------------------------------------------
(* chinese_textbook_analyzer.py: _extract_lessons_from_directory.          *)
(* The directory text is a sequence of characters: "z" is a Chinese        *)
(* character of a title, "." the ASCII full stop of a dot leader, "/" the  *)
(* line feed, "*" the asterisk; "A" and "B" are the unit headers           *)
(* 第一单元 and 第二单元, each taken as one character.  The texts hold no  *)
(* ideographic full stop and none of the section names of line 377.        *)

MaxPieces == 4

DigitClass == Range(Digits)
SpaceClass == {" ", "/"}                        \* \s
StarClass == {"*"}
DotClass == {"."}
TitleClass == {"z", ".", " ", "*"} \cup DigitClass   \* [^。\n]
HeaderClass == {"A", "B"}

HeaderToken(c) == IF c = "A" THEN <<"yi">> ELSE <<"er">>

\* the number of characters of the class that follow each other from p on
RECURSIVE RunLen(_, _, _)
RunLen(text, p, class) ==
    IF p > Len(text) \/ text[p] \notin class THEN 0
    ELSE 1 + RunLen(text, p + 1, class)

MaxOf(S) == CHOOSE n \in S : \A k \in S : n >= k

NoMatch == [end |-> 0]

\* (?:\*{0,2})(?:\.{4,})?\s*(\d+), the end of lesson_pattern, from p.  No
\* character is an asterisk, a dot, white space or a digit at once, so each
\* part takes the whole run of its characters or the match fails: at most
\* two asterisks, no dot or four and more, any white space, a digit or more.
MatchTail(text, p) ==
    LET stars == RunLen(text, p, StarClass)
        dots == RunLen(text, p + stars, DotClass)
        gap == RunLen(text, p + stars + dots, SpaceClass)
        q == p + stars + dots + gap
        digits == RunLen(text, q, DigitClass)
    IN  IF stars <= 2 /\ (dots = 0 \/ dots >= 4) /\ digits >= 1
        THEN [end |-> q + digits, page_num |-> SubSeq(text, q, q + digits - 1)]
        ELSE NoMatch

\* ([^。\n]{2,30}): the longest title after which the rest matches
MatchTitle(text, p) ==
    LET ok == {n \in 2..Min(30, RunLen(text, p, TitleClass)) :
                  MatchTail(text, p + n).end # 0}
    IN  IF ok = {} THEN NoMatch
        ELSE MatchTail(text, p + MaxOf(ok)) @@
             [lesson_title |-> SubSeq(text, p, p + MaxOf(ok) - 1)]

\* (\d+)\s+ and the rest, line 371, tried at position p: the digits of the
\* lesson number, then the longest white space after which the rest matches
MatchLesson(text, p) ==
    LET digits == RunLen(text, p, DigitClass)
        ok == {n \in 1..RunLen(text, p + digits, SpaceClass) :
                  MatchTitle(text, p + digits + n).end # 0}
    IN  IF digits = 0 \/ ok = {} THEN NoMatch
        ELSE MatchTitle(text, p + digits + MaxOf(ok)) @@
             [lesson_num_str |-> SubSeq(text, p, p + digits - 1)]

\* re.findall(lesson_pattern, unit_content), from p on
RECURSIVE FindLessons(_, _)
FindLessons(text, p) ==
    IF p > Len(text) THEN <<>>
    ELSE LET found == MatchLesson(text, p)
         IN  IF found.end # 0 THEN <<found>> \o FindLessons(text, found.end)
             ELSE FindLessons(text, p + 1)

\* str.strip() of a title: spaces and line feeds at both ends
StripTitle(text) ==
    LET kept == {i \in DOMAIN text : text[i] \notin SpaceClass}
    IN  IF kept = {} THEN <<>>
        ELSE SubSeq(text, CHOOSE i \in kept : \A j \in kept : i <= j,
                          CHOOSE i \in kept : \A j \in kept : i >= j)

\* lines 374-388: the lessons of one unit section
RECURSIVE SectionLessons(_, _)
SectionLessons(unit_number, lesson_matches) ==
    IF lesson_matches = <<>> THEN <<>>
    ELSE LET found == Head(lesson_matches)
             lesson_title == StripTitle(found.lesson_title)
         IN  (IF Len(lesson_title) > 1
              THEN <<[unit_number |-> unit_number,
                      lesson_number |-> IntOf(found.lesson_num_str),
                      lesson_title |-> lesson_title,
                      start_page |-> IntOf(found.page_num)]>>
              ELSE <<>>)
             \o SectionLessons(unit_number, Tail(lesson_matches))

\* re.split(r'第(...)单元', directory_content), line 360: the text before the
\* first header, then for each header its numeral and the text after it
RECURSIVE SplitUnits(_)
SplitUnits(text) ==
    LET headers == {i \in DOMAIN text : text[i] \in HeaderClass}
    IN  IF headers = {} THEN <<text>>
        ELSE LET h == MaxOf(headers)
             IN  SplitUnits(SubSeq(text, 1, h - 1))
                 \o <<HeaderToken(text[h]), SubSeq(text, h + 1, Len(text))>>

\* one entry of a directory: number, title, seven or six dots, page
ScenarioDirectory ==
    <<"A", " ", "1", " ", "z", "z", "z", "z", "z", "z", "z",
      ".", ".", ".", ".", ".", ".", ".", "2", " ",
      "B", " ", "1", " ", "z", "z", "z", "z", ".", ".", ".", ".", ".", ".", "1", "4">>

Pieces == {<<"1">>, <<"2">>, <<"z">>, <<"z", "z">>, <<" ">>, <<"/">>,
           <<".", ".", ".", ".">>}

RECURSIVE JoinPieces(_)
JoinPieces(pieces) ==
    IF pieces = <<>> THEN <<>> ELSE Head(pieces) \o JoinPieces(Tail(pieces))

\* directory texts: the scenario, and one unit header with an entry text
DirectoryTexts ==
    {ScenarioDirectory}
    \cup {<<"A">> \o JoinPieces(pieces) :
             pieces \in UNION {[1..n -> Pieces] : n \in 0..MaxPieces}}

\* the call with one chunk of page 4, of the given content
LessonsCall(content) ==
    [pc |-> "split", content |-> content, unit_sections |-> <<>>,
     i |-> 1, lessons |-> <<>>]

\* lines 349-360: directory_content is the content and a line feed; it is cut
\* at the unit headers
SplitDirectoryContent ==
    /\ analyzer.pc = "split"
    /\ analyzer' = [analyzer EXCEPT !.pc = "units",
                       !.unit_sections = SplitUnits(analyzer.content \o <<"/">>),
                       !.i = 1]
    /\ AnalyzerUnchanged

\* lines 363-392: one round of the loop over the unit sections (i is the
\* 0-based index of the numeral in unit_sections)
ExtractSectionLessons ==
    /\ analyzer.pc = "units"
    /\ analyzer.i < Len(analyzer.unit_sections)
    /\ analyzer.i < Len(analyzer.unit_sections) - 1
    /\ LET unit_chinese == analyzer.unit_sections[analyzer.i + 1]
           unit_content == analyzer.unit_sections[analyzer.i + 2]
           unit_number == ChineseNumberToInt(unit_chinese)
       IN  analyzer' = [analyzer EXCEPT
                           !.i = @ + 2,
                           !.lessons = @ \o SectionLessons(unit_number,
                                                FindLessons(unit_content, 1))]
    /\ AnalyzerUnchanged

\* line 394
ReturnDirectoryLessons ==
    /\ analyzer.pc = "units"
    /\ ~(analyzer.i < Len(analyzer.unit_sections) - 1)
    /\ analyzer' = [analyzer EXCEPT !.pc = "done"]
    /\ AnalyzerUnchanged

InitLessons ==
    /\ \E content \in DirectoryTexts : analyzer = LessonsCall(content)
    /\ splitter = [pc |-> "off"]
    /\ quality = [pc |-> "off"]
    /\ preprocess = [pc |-> "off"]
    /\ qa = [pc |-> "off"]
    /\ textbook_chunks = <<>>
    /\ NoCall
    /\ bv = [pc |-> "off"]
    /\ document = [chunks |-> <<>>, batch_size |-> 1]
    /\ run = <<>>

NextLessons ==
    \/ SplitDirectoryContent
    \/ ExtractSectionLessons
    \/ ReturnDirectoryLessons

SpecLessons == InitLessons /\ [][NextLessons]_vars

----------------------------------------------------------------------------
(* Properties of the directory lessons, checked under SpecLessons *)

\* C21: the directory text of two unit headers, each followed by one entry
\* "number title dot-leader page", gives two units with one lesson each, with
\* start pages 2 and 14 and the titles without the dot leader.
C21_ScenarioDirectoryLessons ==
    (analyzer.pc = "done" /\ analyzer.content = ScenarioDirectory) =>
        [k \in DOMAIN analyzer.lessons |->
            <<analyzer.lessons[k].unit_number, analyzer.lessons[k].lesson_title,
              analyzer.lessons[k].start_page>>]
        = <<<<1, <<"z", "z", "z", "z", "z", "z", "z">>, 2>>,
            <<2, <<"z", "z", "z", "z">>, 14>>>>

----------------------------------------------------------------------------
(* chinese_text_processor.py: preprocess_chinese_text_for_embedding and    *)
(* _fix_pinyin_errors.  A text is a sequence of items: a Chinese character *)
(* ("[ni]" for 你, "[hao]" 好, "[hu]" 呼, "[chang]" 唱, "[de]" 的), a run  *)
(* of ASCII letters taken as one item ("huK", "chSng", "de", "DE", "ab"),  *)
(* the space " " or the ASCII full stop ".".  Two runs of letters never    *)
(* follow each other, a run being all the letters that adjoin.  The texts  *)
(* hold no digit, no other punctuation and no mis-encoded sequence, so     *)
(* steps 3 to 5 of the preprocessing and step 4 of the repair leave them   *)
(* as they are.                                                            *)

MaxItems == 4

Hanzi == {"[ni]", "[hao]", "[hu]", "[chang]", "[de]"}

LatinRuns == {"huK", "chSng", "de", "DE", "ab"}

Items == {"[ni]", "[hao]", " ", "."} \cup LatinRuns

ItemTexts ==
    {text \in UNION {[1..n -> Items] : n \in 0..MaxItems} :
        \A i \in 1..(Len(text) - 1) : ~(text[i] \in LatinRuns /\ text[i + 1] \in LatinRuns)}

\* the entries of pinyin_to_hanzi that the runs can meet, lines 32-68
pinyin_to_hanzi == [k \in {"huK", "chSng", "de"} |->
                      CASE k = "huK" -> "[hu]" [] k = "chSng" -> "[chang]" [] OTHER -> "[de]"]

\* len(run)
RunLength == [r \in LatinRuns |-> CASE r = "huK" -> 3 [] r = "chSng" -> 5 [] OTHER -> 2]

\* run.lower()
Lower == [r \in LatinRuns |->
            CASE r = "huK" -> "huk" [] r = "chSng" -> "chsng" [] r = "ab" -> "ab"
              [] OTHER -> "de"]

\* run[:-1].lower()
DropLastLower == [r \in LatinRuns |->
            CASE r = "huK" -> "hu" [] r = "chSng" -> "chsn" [] r = "ab" -> "a"
              [] OTHER -> "d"]

\* run[0].lower() + run[1:]
FirstLower == [r \in LatinRuns |-> IF r = "DE" THEN "dE" ELSE r]

\* \w of Python 3: letters of any script
IsWord(item) == item \in Hanzi \cup LatinRuns

\* \s
IsSpace(item) == item = " "

\* step 1 of the repair, lines 128-131: a key of the table is replaced where
\* neither neighbour is of [\w@.]
ReplaceStandalone(text) ==
    [i \in DOMAIN text |->
        IF /\ text[i] \in DOMAIN pinyin_to_hanzi
           /\ (i = 1 \/ ~(IsWord(text[i - 1]) \/ text[i - 1] = "."))
           /\ (i = Len(text) \/ ~(IsWord(text[i + 1]) \/ text[i + 1] = "."))
        THEN pinyin_to_hanzi[text[i]]
        ELSE text[i]]

\* fix_middle_pinyin, lines 134-140
FixMiddlePinyin(pinyin_part) ==
    IF Lower[pinyin_part] \in DOMAIN pinyin_to_hanzi
    THEN pinyin_to_hanzi[Lower[pinyin_part]]
    ELSE pinyin_part

\* step 2, line 143: re.sub over character, one to four letters, character;
\* the matches do not overlap
RECURSIVE ReplaceMiddle(_)
ReplaceMiddle(text) ==
    IF text = <<>> THEN <<>>
    ELSE IF /\ Len(text) >= 3
            /\ text[1] \in Hanzi
            /\ text[2] \in LatinRuns /\ RunLength[text[2]] <= 4
            /\ text[3] \in Hanzi
    THEN <<text[1], FixMiddlePinyin(text[2]), text[3]>>
         \o ReplaceMiddle(SubSeq(text, 4, Len(text)))
    ELSE <<Head(text)>> \o ReplaceMiddle(Tail(text))

\* fix_capitalized_pinyin, lines 146-159
FixCapitalizedPinyin(pinyin_part) ==
    IF Lower[pinyin_part] \in DOMAIN pinyin_to_hanzi
    THEN pinyin_to_hanzi[Lower[pinyin_part]]
    ELSE IF DropLastLower[pinyin_part] \in DOMAIN pinyin_to_hanzi
    THEN pinyin_to_hanzi[DropLastLower[pinyin_part]]
    ELSE IF FirstLower[pinyin_part] \in DOMAIN pinyin_to_hanzi
    THEN pinyin_to_hanzi[FirstLower[pinyin_part]]
    ELSE pinyin_part

\* step 3, line 162: \b([a-zA-Z]{2,6})\b before a Chinese character or
\* white space.  The \b after
\* the letters asks for the end of the text or an item that is not of \w,
\* the look-ahead for a Chinese character or white space: white space it is.
ReplaceCapitalized(text) ==
    [i \in DOMAIN text |->
        IF /\ text[i] \in LatinRuns
           /\ RunLength[text[i]] >= 2 /\ RunLength[text[i]] <= 6
           /\ (i = 1 \/ ~IsWord(text[i - 1]))
           /\ (i = Len(text) \/ ~IsWord(text[i + 1]))
           /\ i < Len(text)
           /\ (text[i + 1] \in Hanzi \/ IsSpace(text[i + 1]))
        THEN FixCapitalizedPinyin(text[i])
        ELSE text[i]]

\* _fix_pinyin_errors, lines 116-180
FixPinyinErrors(text) ==
    IF text = <<>> THEN text
    ELSE ReplaceCapitalized(ReplaceMiddle(ReplaceStandalone(text)))

\* step 1 of the preprocessing, lines 89-90: runs of white space become one space
RECURSIVE CollapseSpace(_)
CollapseSpace(text) ==
    IF Len(text) < 2 THEN text
    ELSE IF IsSpace(text[1]) /\ IsSpace(text[2]) THEN CollapseSpace(Tail(text))
    ELSE <<Head(text)>> \o CollapseSpace(Tail(text))

\* step 2, line 93: only Chinese characters, Chinese punctuation, digits and
\* white space are kept
KeepChinese(text) == Filter(text, {item \in Range(text) : item \in Hanzi \/ IsSpace(item)})

\* text.split(' ')
RECURSIVE SplitSpace(_)
SplitSpace(text) ==
    LET spaces == {i \in DOMAIN text : IsSpace(text[i])}
    IN  IF spaces = {} THEN <<text>>
        ELSE LET last == CHOOSE i \in spaces : \A j \in spaces : i >= j
             IN  SplitSpace(SubSeq(text, 1, last - 1))
                 \o <<SubSeq(text, last + 1, Len(text))>>

\* ' '.join(lines)
RECURSIVE JoinSpace(_)
JoinSpace(lines) ==
    IF lines = <<>> THEN <<>>
    ELSE IF Len(lines) = 1 THEN lines[1]
    ELSE lines[1] \o <<" ">> \o JoinSpace(Tail(lines))

\* step 6, lines 109-114: the fragments of three characters and more
MeaningfulLines(text) ==
    LET lines == SplitSpace(text)
    IN  JoinSpace(Filter(lines, {line \in Range(lines) : Len(line) >= 3}))

PreprocessCall(text) == [pc |-> "fix", text |-> text, result |-> <<>>]

PreprocessUnchanged ==
    UNCHANGED <<textbook_chunks, call, ret, semantic_results, keyword_results, path,
                bv, document, run, splitter, quality, analyzer, qa>>

\* lines 81-82: an empty text is returned as it is
ReturnEmptyText ==
    /\ preprocess.pc = "fix"
    /\ preprocess.text = <<>>
    /\ preprocess' = [preprocess EXCEPT !.pc = "done", !.result = <<>>]
    /\ PreprocessUnchanged

\* line 85: text = self._fix_pinyin_errors(text)
RepairPinyin ==
    /\ preprocess.pc = "fix"
    /\ preprocess.text # <<>>
    /\ preprocess' = [preprocess EXCEPT !.pc = "clean",
                                        !.result = FixPinyinErrors(preprocess.text)]
    /\ PreprocessUnchanged

\* lines 88-106: white space, script filter, punctuation, noise marks
CleanText ==
    /\ preprocess.pc = "clean"
    /\ preprocess' = [preprocess EXCEPT !.pc = "fragments",
                                        !.result = KeepChinese(CollapseSpace(@))]
    /\ PreprocessUnchanged

\* lines 108-114
DropShortFragments ==
    /\ preprocess.pc = "fragments"
    /\ preprocess' = [preprocess EXCEPT !.pc = "done", !.result = MeaningfulLines(@)]
    /\ PreprocessUnchanged

InitPreprocess ==
    /\ \E text \in ItemTexts : preprocess = PreprocessCall(text)
    /\ splitter = [pc |-> "off"]
    /\ quality = [pc |-> "off"]
    /\ analyzer = [pc |-> "off"]
    /\ qa = [pc |-> "off"]
    /\ textbook_chunks = <<>>
    /\ NoCall
    /\ bv = [pc |-> "off"]
    /\ document = [chunks |-> <<>>, batch_size |-> 1]
    /\ run = <<>>

NextPreprocess ==
    \/ ReturnEmptyText
    \/ RepairPinyin
    \/ CleanText
    \/ DropShortFragments

SpecPreprocess == InitPreprocess /\ [][NextPreprocess]_vars

----------------------------------------------------------------------------
(* Properties of the text preprocessing, checked under SpecPreprocess *)

\* C22: the input huK你好chSng, with huK and chSng in the repair table, is
\* normalized to 呼你好唱: a run of letters of the table that adjoins
\* Chinese characters is replaced by its character and not dropped later.
C22_ScenarioPinyinRepaired ==
    (preprocess.pc = "done" /\ preprocess.text = <<"huK", "[ni]", "[hao]", "chSng">>) =>
        preprocess.result = <<"[hu]", "[ni]", "[hao]", "[chang]">>

----------------------------------------------------------------------------
(* qa_service.py: QAService.ask_question and                               *)
(* ask_question_with_error_handling.  A search result is its score in      *)
(* hundredths and the length of its formatted chunk; an answer and an      *)
(* error text are kept as the name of the statement that made them.        *)

MaxSearchResults == 2

QaEntries == {"ask_question", "ask_question_with_error_handling"}

\* request.max_context_length
ContextLengths == {0, 2, 3}

QaResult == [score : {20, 50}, length : {1, 2}]

\* what self.rag_service.search gives: a list of results, or it raises
QaSearchReplies ==
    {[raised |-> TRUE, results |-> <<>>]}
    \cup {[raised |-> FALSE, results |-> results] :
             results \in UNION {[1..n -> QaResult] : n \in 0..MaxSearchResults}}

\* the QAResponse of the except branches, lines 177-188, 212-223, 277-288
ErrorResponse_ErrorDropped(error) ==
    [answer |-> "apology", sources |-> <<>>, context_used |-> FALSE,
     metadata |-> [error |-> None]]

ErrorResponse(error) ==
    [answer |-> "apology", sources |-> <<>>, context_used |-> FALSE,
     metadata |-> [error |-> error]]

\* _retrieve_relevant_content, lines 304-309: result.score > 0.3
FilteredResults(results) ==
    Filter(results, {result \in Range(results) : result.score > 30})

\* _build_context_and_prompt, lines 333-345: the chunks that fit the limit
RECURSIVE ContextParts(_, _, _)
ContextParts(search_results, current_length, max_context_length) ==
    IF search_results = <<>> THEN <<>>
    ELSE IF current_length + Head(search_results).length > max_context_length THEN <<>>
    ELSE <<Head(search_results)>>
         \o ContextParts(Tail(search_results),
                         current_length + Head(search_results).length, max_context_length)

\* lines 160-167 and 245-252: one source_info per search result
Sources(search_results) ==
    [k \in DOMAIN search_results |-> [score |-> search_results[k].score]]

QaCall(entry, max_context_length) ==
    [pc |-> "retrieve", entry |-> entry, max_context_length |-> max_context_length,
     retrieval |-> "none", search_results |-> <<>>, prompt |-> "none",
     answer |-> "none", raised |-> FALSE, returned |-> FALSE,
     response |-> [answer |-> "none", sources |-> <<>>, context_used |-> FALSE,
                   metadata |-> [error |-> None]]]

QaUnchanged ==
    UNCHANGED <<textbook_chunks, call, ret, semantic_results, keyword_results, path,
                bv, document, run, splitter, quality, analyzer, preprocess>>

\* step 1, lines 132-133 and 206-223: the retrieval, and the except branch
\* that takes its exception
RetrieveRelevantContent(reply) ==
    /\ qa.pc = "retrieve"
    /\ qa' = IF reply.raised
             THEN [qa EXCEPT
                     !.pc = "done", !.retrieval = "raised", !.returned = TRUE,
                     !.response = IF qa.entry = "ask_question"
                                  THEN ErrorResponse("str(e)")
                                  ELSE ErrorResponse("retrieval service unavailable")]
             ELSE [qa EXCEPT !.pc = "prompt", !.retrieval = "returned",
                             !.search_results = FilteredResults(reply.results)]
    /\ QaUnchanged

\* step 2, lines 135-136 and 225-226
BuildContextAndPrompt ==
    /\ qa.pc = "prompt"
    /\ qa' = [qa EXCEPT
                !.pc = "generate",
                !.prompt = IF ContextParts(qa.search_results, 0, qa.max_context_length) # <<>>
                           THEN "teacher_prompt_template" ELSE "no_context_prompt"]
    /\ QaUnchanged

\* step 3, lines 138-139 and 228-242: _generate_answer gives the text of the
\* model, or its default answer when the model call raises (lines 369-396)
GenerateAnswer(llm) ==
    /\ qa.pc = "generate"
    /\ qa' = [qa EXCEPT !.pc = "respond",
                        !.answer = IF llm = "raise" THEN "default answer" ELSE "generated"]
    /\ QaUnchanged

\* step 4, lines 141-175 and 244-275: the response; get_model_info can raise,
\* which the outer except branch takes
PrepareResponse(model_info) ==
    /\ qa.pc = "respond"
    /\ qa' = [qa EXCEPT
                !.pc = "done", !.returned = TRUE,
                !.response =
                    IF model_info = "raise" THEN ErrorResponse("str(e)")
                    ELSE [answer |-> qa.answer, sources |-> Sources(qa.search_results),
                          context_used |-> Len(qa.search_results) > 0,
                          metadata |-> [error |-> None]]]
    /\ QaUnchanged

InitQa ==
    /\ \E entry \in QaEntries, max_context_length \in ContextLengths :
          qa = QaCall(entry, max_context_length)
    /\ splitter = [pc |-> "off"]
    /\ quality = [pc |-> "off"]
    /\ analyzer = [pc |-> "off"]
    /\ preprocess = [pc |-> "off"]
    /\ textbook_chunks = <<>>
    /\ NoCall
    /\ bv = [pc |-> "off"]
    /\ document = [chunks |-> <<>>, batch_size |-> 1]
    /\ run = <<>>

NextQa ==
    \/ \E reply \in QaSearchReplies : RetrieveRelevantContent(reply)
    \/ BuildContextAndPrompt
    \/ \E llm \in {"text", "raise"} : GenerateAnswer(llm)
    \/ \E model_info \in {"info", "raise"} : PrepareResponse(model_info)

SpecQa == InitQa /\ [][NextQa]_vars

----------------------------------------------------------------------------
(* Properties of the question answering, checked under SpecQa *)

\* C23: whenever the retrieval raises, both entry points return a response
\* (no exception leaves them) with context_used false, no sources and an
\* error in the metadata.
C23_RetrievalFailureGivesErrorResponse ==
    (qa.pc = "done" /\ qa.retrieval = "raised") =>
        /\ ~qa.raised
        /\ qa.returned
        /\ qa.response.context_used = FALSE
        /\ qa.response.sources = <<>>
        /\ qa.response.metadata.error # None

\* ask_question_with_error_handling returned after the retrieval raised
C23_Witness ==
    /\ qa.pc = "done"
    /\ qa.entry = "ask_question_with_error_handling"
    /\ qa.retrieval = "raised"
    /\ qa.response.metadata.error = "retrieval service unavailable"

====
